---- MODULE Spec2Model ----
(***************************************************************************)
(* A model of the lead scoring engine (LeadScorer) of the email lead       *)
(* qualifier: the configuration it holds, the score operation with every   *)
(* signal of its two passes, the tier classification, the reasoning        *)
(* generator, the constructor / reloadConfig / getConfig lifecycle, and    *)
(* the orchestrator's qualifyLeads batches that call score per lead.       *)
(*                                                                         *)
(* JavaScript numbers are modelled as exact rationals <<n, d>> (d > 0, in  *)
(* lowest terms), strings as TLA+ strings, an optional property as a       *)
(* record field that is or is not in the record's DOMAIN.                  *)
(***************************************************************************)
EXTENDS Integers, Sequences, FiniteSets, TLC

VARIABLES
    files,      \* the file system: path -> content of the configuration document
    scorer,     \* the LeadScorer instance: [constructed, config]
    leadObj,    \* the QualifiedLead object the caller holds (score sorts it in place)
    results,    \* the LeadScore values returned so far, in call order
    thrown,     \* the exception the last call propagated to the caller ("none" if it returned)
    calls,      \* per returned result, the configuration the scorer held when score was called
    given,      \* the lead as the caller built it, before any score call
    last,       \* the last operation: its name and the file path it resolved
    batch       \* the qualifyLeads call in progress: its loop, its pipelines, its results

vars == <<files, scorer, leadObj, results, thrown, calls, given, last, batch>>

----------------------------------------------------------------------------
(* Bounds of the model *)

\* longest list of LinkedIn experiences in a drawn bundle
MaxExp == 3
\* number of score calls made on one lead object
MaxResults == 2
\* largest raw count of a GitHub ramp input (repos, contributions, stars, ...)
MaxCount == 1010
\* longest topLanguages list
MaxLangs == 6

----------------------------------------------------------------------------
(* Numbers *)

RECURSIVE GCD(_, _)
GCD(a, b) == IF b = 0 THEN a ELSE GCD(b, a % b)

Abs(x) == IF x < 0 THEN -x ELSE x

\* the number n / d
Q(n, d) ==
    LET g == GCD(Abs(n), d)
    IN  <<n \div g, d \div g>>

Num(n) == <<n, 1>>

Add(a, b) == Q(a[1] * b[2] + b[1] * a[2], a[2] * b[2])

Mul(a, b) == Q(a[1] * b[1], a[2] * b[2])

\* a / b for b > 0
Div(a, b) == Q(a[1] * b[2], a[2] * b[1])

\* a >= b
Ge(a, b) == a[1] * b[2] >= b[1] * a[2]

\* Math.min(a, b)
MathMin(a, b) == IF Ge(a, b) THEN b ELSE a

\* Math.round(a): the integer nearest to a, a half rounding up
MathRound(a) == (2 * a[1] + a[2]) \div (2 * a[2])

\* x || dflt for a number x: 0 is falsy
OrElse(x, dflt) == IF x[1] # 0 THEN x ELSE dflt

RECURSIVE SumSeq(_)
SumSeq(s) == IF s = <<>> THEN Num(0) ELSE Add(Head(s), SumSeq(Tail(s)))

----------------------------------------------------------------------------
(* Strings *)

UpperChars == <<"A","B","C","D","E","F","G","H","I","J","K","L","M",
                "N","O","P","Q","R","S","T","U","V","W","X","Y","Z">>
LowerChars == <<"a","b","c","d","e","f","g","h","i","j","k","l","m",
                "n","o","p","q","r","s","t","u","v","w","x","y","z">>

LowerChar(c) ==
    IF \E k \in 1..26 : UpperChars[k] = c
    THEN LowerChars[CHOOSE k \in 1..26 : UpperChars[k] = c]
    ELSE c

UpperChar(c) ==
    IF \E k \in 1..26 : LowerChars[k] = c
    THEN UpperChars[CHOOSE k \in 1..26 : LowerChars[k] = c]
    ELSE c

\* s.toLowerCase()
RECURSIVE toLowerCase(_)
toLowerCase(s) ==
    IF Len(s) = 0 THEN ""
    ELSE LowerChar(SubSeq(s, 1, 1)) \o toLowerCase(SubSeq(s, 2, Len(s)))

\* s.includes(sub)
includes(s, sub) ==
    \E i \in 1..(Len(s) - Len(sub) + 1) : SubSeq(s, i, i + Len(sub) - 1) = sub

\* tier.charAt(0).toUpperCase() + tier.slice(1)
Capitalize(s) ==
    IF Len(s) = 0 THEN "" ELSE UpperChar(SubSeq(s, 1, 1)) \o SubSeq(s, 2, Len(s))

DigitChars == <<"0","1","2","3","4","5","6","7","8","9">>

\* `${n}` for a natural number n
RECURSIVE NatToString(_)
NatToString(n) ==
    IF n < 10 THEN DigitChars[n + 1]
    ELSE NatToString(n \div 10) \o DigitChars[(n % 10) + 1]

\* parts.join(sep)
RECURSIVE join(_, _)
join(parts, sep) ==
    IF parts = <<>> THEN ""
    ELSE IF Len(parts) = 1 THEN parts[1]
    ELSE parts[1] \o sep \o join(Tail(parts), sep)

----------------------------------------------------------------------------
(* Dates and Array.prototype.sort *)

IsDigits(s) == \A i \in 1..Len(s) : \E k \in 1..10 : DigitChars[k] = SubSeq(s, i, i)

DigitVal(c) == (CHOOSE k \in 1..10 : DigitChars[k] = c) - 1

RECURSIVE ParseNat(_)
ParseNat(s) ==
    IF Len(s) = 0 THEN 0
    ELSE 10 * ParseNat(SubSeq(s, 1, Len(s) - 1)) + DigitVal(SubSeq(s, Len(s), Len(s)))

\* days from 1970-01-01 to the civil date y-m-d
DaysFromCivil(y, m, d) ==
    LET yy  == IF m <= 2 THEN y - 1 ELSE y
        era == yy \div 400
        yoe == yy - era * 400
        mp  == IF m > 2 THEN m - 3 ELSE m + 9
        doy == (153 * mp + 2) \div 5 + d - 1
        doe == yoe * 365 + yoe \div 4 - yoe \div 100 + doy
    IN  era * 146097 + doe - 719468

\* new Date(s).getTime() for the date strings of the profiles: "YYYY-MM" is a
\* date, any other string ("Present", "") is an Invalid Date, whose time is NaN.
\* The time is counted in days (the milliseconds divided by 86 400 000).
getTime(s) ==
    IF /\ Len(s) = 7
       /\ SubSeq(s, 5, 5) = "-"
       /\ IsDigits(SubSeq(s, 1, 4))
       /\ IsDigits(SubSeq(s, 6, 7))
       /\ ParseNat(SubSeq(s, 6, 7)) \in 1..12
    THEN [nan |-> FALSE,
          ms  |-> DaysFromCivil(ParseNat(SubSeq(s, 1, 4)), ParseNat(SubSeq(s, 6, 7)), 1)]
    ELSE [nan |-> TRUE, ms |-> 0]

\* the comparator (a, b) => new Date(b.startDate).getTime() - new Date(a.startDate).getTime()
\* tb - ta on numbers: NaN when either is NaN
Minus(tb, ta) ==
    IF ta.nan \/ tb.nan THEN [nan |-> TRUE, ms |-> 0]
    ELSE [nan |-> FALSE, ms |-> tb.ms - ta.ms]

compareFn(a, b) == Minus(getTime(b.startDate), getTime(a.startDate))

\* the engine's reading of a comparator result: NaN counts as 0
ToOrder(v) == IF v.nan THEN 0 ELSE v.ms

\* the engine's call of the comparator
SortCompare(a, b) == ToOrder(compareFn(a, b))

Reverse(s) == [i \in 1..Len(s) |-> s[Len(s) + 1 - i]]

\* the run stops at the first pair whose order differs from the run's direction
RunEnds(isDescending, order) ==
    (isDescending /\ order >= 0) \/ (~isDescending /\ order < 0)

\* length of the run that starts the array (the array has at least 2 elements)
RECURSIVE RunLength(_, _, _)
RunLength(w, idx, isDescending) ==
    IF idx > Len(w) THEN idx - 1
    ELSE IF RunEnds(isDescending, SortCompare(w[idx], w[idx - 1]))
         THEN idx - 1
         ELSE RunLength(w, idx + 1, isDescending)

\* the array with its first run made ascending, and the run's length
MakeRun(w, isDescending, runLength) ==
    [run   |-> runLength,
     array |-> IF isDescending
               THEN Reverse(SubSeq(w, 1, runLength)) \o SubSeq(w, runLength + 1, Len(w))
               ELSE w]

CountRun(w, isDescending) == MakeRun(w, isDescending, RunLength(w, 3, isDescending))

CountAndMakeRun(w) == CountRun(w, SortCompare(w[2], w[1]) < 0)

\* the 0-based place where pivot goes among w[left .. right - 1]
RECURSIVE BinarySearch(_, _, _, _)
BinarySearch(w, pivot, left, right) ==
    IF left >= right THEN left
    ELSE LET mid == left + ((right - left) \div 2)
         IN  IF SortCompare(pivot, w[mid + 1]) < 0
             THEN BinarySearch(w, pivot, left, mid)
             ELSE BinarySearch(w, pivot, mid + 1, right)

\* the array with pivot, found at 0-based index start, moved to 0-based index left
InsertAt(w, pivot, left, start) ==
    SubSeq(w, 1, left) \o <<pivot>> \o SubSeq(w, left + 1, start)
        \o SubSeq(w, start + 2, Len(w))

\* insert the elements from 0-based index start on into the sorted prefix
RECURSIVE BinaryInsertionSort(_, _)
BinaryInsertionSort(w, start) ==
    IF start >= Len(w) THEN w
    ELSE BinaryInsertionSort(
             InsertAt(w, w[start + 1], BinarySearch(w, w[start + 1], 0, start), start),
             start + 1)

\* experiences.sort(compareFn): the engine's stable merge sort, which for an
\* array this short is one run followed by a binary insertion sort
InsertAfterRun(r) == BinaryInsertionSort(r.array, r.run)

ArraySort(w) == IF Len(w) < 2 THEN w ELSE InsertAfterRun(CountAndMakeRun(w))

----------------------------------------------------------------------------
(* Configuration lookups *)

\* this.config.scoring_rules?.[section]?.[key] || dflt, for a number
Rule(config, section, key, dflt) ==
    IF /\ "scoring_rules" \in DOMAIN config
       /\ section \in DOMAIN config.scoring_rules
       /\ key \in DOMAIN config.scoring_rules[section]
    THEN OrElse(config.scoring_rules[section][key], dflt)
    ELSE dflt

\* this.config.scoring_rules?.[section]?.[key] || [], for a list of strings
RuleList(config, section, key) ==
    IF /\ "scoring_rules" \in DOMAIN config
       /\ section \in DOMAIN config.scoring_rules
       /\ key \in DOMAIN config.scoring_rules[section]
    THEN config.scoring_rules[section][key]
    ELSE <<>>

\* this.config.<category>.[key] || dflt
Cap(category, key, dflt) ==
    IF key \in DOMAIN category THEN OrElse(category[key], dflt) ELSE dflt

----------------------------------------------------------------------------
(* The signals of score: each section of the method gives the entries it     *)
(* writes to the signal map, the amount it adds to its category's running    *)
(* score, and whether it threw.                                              *)

EmptyMap == [k \in {} |-> Num(0)]

NoSignal == [signals |-> EmptyMap, score |-> Num(0), threw |-> FALSE]

Fired(key, value) == [signals |-> (key :> value), score |-> value, threw |-> FALSE]

\* what reading a property of an absent (undefined) sub-profile does
TypeError == [signals |-> EmptyMap, score |-> Num(0), threw |-> TRUE]

Has(lead, profile) == profile \in DOMAIN lead.qualification

\* GitHub Projects without the test that the github sub-profile is there:
\* reading publicRepos of an absent sub-profile raises
GithubProjectsUnguarded(lead, config) ==
    IF Has(lead, "github")
    THEN IF Ge(Num(lead.qualification.github.publicRepos),
               Rule(config, "github_projects", "min_repos", Num(3)))
         THEN Fired("githubProjects",
                    Mul(MathMin(Div(Num(lead.qualification.github.publicRepos),
                                    Rule(config, "github_projects", "max_score_repos",
                                         Num(10))),
                                Num(1)),
                        config.ambition.github_projects))
         ELSE NoSignal
    ELSE TypeError

\* AMBITION: GitHub Projects
GithubProjects(lead, config) ==
    IF Has(lead, "github")
    THEN LET repos    == Num(lead.qualification.github.publicRepos)
             minRepos == Rule(config, "github_projects", "min_repos", Num(3))
             maxRepos == Rule(config, "github_projects", "max_score_repos", Num(10))
         IN  IF Ge(repos, minRepos)
             THEN LET normalizedScore == MathMin(Div(repos, maxRepos), Num(1))
                  IN  Fired("githubProjects",
                            Mul(normalizedScore, config.ambition.github_projects))
             ELSE NoSignal
    ELSE NoSignal

isFounderTitle(exp) ==
    \/ includes(toLowerCase(exp.title), "founder")
    \/ includes(toLowerCase(exp.title), "co-founder")

\* AMBITION: LinkedIn Startups
LinkedinStartups(lead, config) ==
    IF Has(lead, "linkedin")
    THEN LET startupExp == SelectSeq(lead.qualification.linkedin.experiences, isFounderTitle)
         IN  IF Len(startupExp) > 0
             THEN LET baseScore  == config.ambition.linkedin_startups
                      multiplier == Rule(config, "linkedin_startups", "founder_multiplier", Num(1))
                  IN  Fired("linkedinStartups", Mul(baseScore, multiplier))
             ELSE NoSignal
    ELSE NoSignal

\* AMBITION: LinkedIn Leadership
LinkedinLeadership(lead, config) ==
    IF Has(lead, "linkedin")
    THEN LET leadershipTitles == RuleList(config, "linkedin_leadership", "leadership_titles")
             experiences      == lead.qualification.linkedin.experiences
             hasLeadership    ==
                 \E i \in 1..Len(experiences) : \E j \in 1..Len(leadershipTitles) :
                     includes(toLowerCase(experiences[i].title),
                              toLowerCase(leadershipTitles[j]))
         IN  IF hasLeadership
             THEN Fired("linkedinLeadership", config.ambition.linkedin_leadership)
             ELSE NoSignal
    ELSE NoSignal

\* GitHub Languages that is at its cap from three languages on
GithubLanguagesThreeSaturate(lead, config) ==
    IF Has(lead, "github")
    THEN IF Ge(Num(Len(lead.qualification.github.topLanguages)),
               Rule(config, "github_languages", "min_languages", Num(2)))
         THEN Fired("githubLanguages",
                    Mul(MathMin(Div(Num(Len(lead.qualification.github.topLanguages)),
                                    Rule(config, "github_languages",
                                         "max_score_languages", Num(3))),
                                Num(1)),
                        config.intelligence.github_languages))
         ELSE NoSignal
    ELSE NoSignal

\* INTELLIGENCE: GitHub Languages
GithubLanguages(lead, config) ==
    IF Has(lead, "github")
    THEN LET langCount == Num(Len(lead.qualification.github.topLanguages))
             minLang   == Rule(config, "github_languages", "min_languages", Num(2))
             maxLang   == Rule(config, "github_languages", "max_score_languages", Num(5))
         IN  IF Ge(langCount, minLang)
             THEN LET normalizedScore == MathMin(Div(langCount, maxLang), Num(1))
                  IN  Fired("githubLanguages",
                            Mul(normalizedScore, config.intelligence.github_languages))
             ELSE NoSignal
    ELSE NoSignal

\* GitHub Contributions that records the signal below the minimum too, as 0
GithubContributionsZeroed(lead, config) ==
    IF Has(lead, "github")
    THEN IF Ge(Num(lead.qualification.github.contributions.lastYear),
               Rule(config, "github_contributions", "min_contributions", Num(100)))
         THEN Fired("githubContributions",
                    Mul(MathMin(Div(Num(lead.qualification.github.contributions.lastYear),
                                    Rule(config, "github_contributions",
                                         "max_score_contributions", Num(1000))),
                                Num(1)),
                        config.intelligence.github_contributions))
         ELSE Fired("githubContributions", Num(0))
    ELSE NoSignal

\* INTELLIGENCE: GitHub Contributions
GithubContributions(lead, config) ==
    IF Has(lead, "github")
    THEN LET contribs    == Num(lead.qualification.github.contributions.lastYear)
             minContribs == Rule(config, "github_contributions", "min_contributions", Num(100))
             maxContribs == Rule(config, "github_contributions", "max_score_contributions",
                                 Num(1000))
         IN  IF Ge(contribs, minContribs)
             THEN LET normalizedScore == MathMin(Div(contribs, maxContribs), Num(1))
                  IN  Fired("githubContributions",
                            Mul(normalizedScore, config.intelligence.github_contributions))
             ELSE NoSignal
    ELSE NoSignal

\* edu.degree?.toLowerCase().includes('master') || ...('phd') || ...('doctorate')
hasAdvancedDegree(edu) ==
    /\ "degree" \in DOMAIN edu
    /\ \/ includes(toLowerCase(edu.degree), "master")
       \/ includes(toLowerCase(edu.degree), "phd")
       \/ includes(toLowerCase(edu.degree), "doctorate")

isTopSchool(edu, topSchools) ==
    \E j \in 1..Len(topSchools) :
        includes(toLowerCase(edu.school), toLowerCase(topSchools[j]))

\* the loop with its break outside the if: it stops after the first entry, match or not
EducationLoopFirstOnly(education, i, config, eduScore) ==
    IF i > Len(education) THEN eduScore
    ELSE IF isTopSchool(education[i], RuleList(config, "linkedin_education", "top_schools"))
         THEN IF hasAdvancedDegree(education[i])
              THEN Mul(config.intelligence.linkedin_education,
                       Add(Num(1), Rule(config, "linkedin_education",
                                        "advanced_degree_bonus", Q(3, 10))))
              ELSE config.intelligence.linkedin_education
         ELSE eduScore

\* the loop without its break: the highest-scoring entry of a top school counts
RECURSIVE EducationLoopBest(_, _, _, _)
EducationLoopBest(education, i, config, eduScore) ==
    IF i > Len(education) THEN eduScore
    ELSE IF isTopSchool(education[i], RuleList(config, "linkedin_education", "top_schools"))
         THEN IF hasAdvancedDegree(education[i])
              THEN EducationLoopBest(education, i + 1, config,
                       Mul(config.intelligence.linkedin_education,
                           Add(Num(1), Rule(config, "linkedin_education",
                                            "advanced_degree_bonus", Q(3, 10)))))
              ELSE EducationLoopBest(education, i + 1, config,
                       IF Ge(eduScore, config.intelligence.linkedin_education)
                       THEN eduScore ELSE config.intelligence.linkedin_education)
         ELSE EducationLoopBest(education, i + 1, config, eduScore)

\* the for loop over the education entries from entry i on: it stops at the
\* first entry of a top school
RECURSIVE EducationLoop(_, _, _, _)
EducationLoop(education, i, config, eduScore) ==
    IF i > Len(education) THEN eduScore
    ELSE IF isTopSchool(education[i], RuleList(config, "linkedin_education", "top_schools"))
         THEN IF hasAdvancedDegree(education[i])
              THEN Mul(config.intelligence.linkedin_education,
                       Add(Num(1), Rule(config, "linkedin_education",
                                        "advanced_degree_bonus", Q(3, 10))))
              ELSE config.intelligence.linkedin_education
         ELSE EducationLoop(education, i + 1, config, eduScore)

\* INTELLIGENCE: LinkedIn Education
LinkedinEducation(lead, config) ==
    IF Has(lead, "linkedin")
    THEN Fired("linkedinEducation",
               EducationLoop(lead.qualification.linkedin.education, 1, config, Num(0)))
    ELSE NoSignal

\* INTELLIGENCE: LinkedIn Certifications
LinkedinCertifications(lead, config) ==
    IF Has(lead, "linkedin") /\ Len(lead.qualification.linkedin.certifications) > 0
    THEN Fired("linkedinCertifications",
               MathMin(Num(Len(lead.qualification.linkedin.certifications) * 2),
                       config.intelligence.linkedin_certifications))
    ELSE NoSignal

\* KINDNESS: GitHub Open Source
GithubOpenSource(lead, config) ==
    IF Has(lead, "github")
    THEN LET osContribs  == Num(lead.qualification.github.openSourceContributions)
             minContribs == Rule(config, "github_open_source", "min_contributions", Num(10))
             maxContribs == Rule(config, "github_open_source", "max_score_contributions",
                                 Num(100))
         IN  IF Ge(osContribs, minContribs)
             THEN LET normalizedScore == MathMin(Div(osContribs, maxContribs), Num(1))
                  IN  Fired("githubOpenSource",
                            Mul(normalizedScore, config.kindness.github_open_source))
             ELSE NoSignal
    ELSE NoSignal

\* KINDNESS: LinkedIn Volunteering
LinkedinVolunteering(lead, config) ==
    IF Has(lead, "linkedin") /\ Len(lead.qualification.linkedin.volunteering) > 0
    THEN Fired("linkedinVolunteering", config.kindness.linkedin_volunteering)
    ELSE NoSignal

\* GitHub Stars without the Math.min(..., 1) clamp
GithubStarsUnclamped(lead, config) ==
    IF Has(lead, "github")
    THEN IF Ge(Num(lead.qualification.github.totalStars),
               Rule(config, "github_stars", "min_stars", Num(50)))
         THEN Fired("githubStars",
                    Mul(Div(Num(lead.qualification.github.totalStars),
                            Rule(config, "github_stars", "max_score_stars", Num(500))),
                        config.trackRecord.github_stars))
         ELSE NoSignal
    ELSE NoSignal

\* TRACK RECORD: GitHub Stars
GithubStars(lead, config) ==
    IF Has(lead, "github")
    THEN LET stars    == Num(lead.qualification.github.totalStars)
             minStars == Rule(config, "github_stars", "min_stars", Num(50))
             maxStars == Rule(config, "github_stars", "max_score_stars", Num(500))
         IN  IF Ge(stars, minStars)
             THEN LET normalizedScore == MathMin(Div(stars, maxStars), Num(1))
                  IN  Fired("githubStars",
                            Mul(normalizedScore, config.trackRecord.github_stars))
             ELSE NoSignal
    ELSE NoSignal

\* the number of i with experiences[i].company = experiences[i + 1].company
promotionCount(experiences) ==
    Cardinality({i \in 1..(Len(experiences) - 1) :
                    experiences[i].company = experiences[i + 1].company})

\* TRACK RECORD: LinkedIn Promotions
\* the signal for a number of promotions
PromotionSignal(count, config) ==
    IF count > 0
    THEN Fired("linkedinPromotions",
               Mul(MathMin(Div(Num(count), Rule(config, "linkedin_promotions",
                                                "max_score_promotions", Num(3))),
                           Num(1)),
                   config.trackRecord.linkedin_promotions))
    ELSE NoSignal

LinkedinPromotions(lead, config) ==
    IF Has(lead, "linkedin")
    THEN PromotionSignal(promotionCount(ArraySort(lead.qualification.linkedin.experiences)),
                         config)
    ELSE NoSignal

\* the lead object after a score that takes the experiences out of the lead's
\* array (shift) while it counts them
LeadAfterScoreConsuming(ld) ==
    IF Has(ld, "linkedin")
    THEN [ld EXCEPT !.qualification.linkedin.experiences = <<>>]
    ELSE ld

\* the lead object after score: experiences.sort() sorts the lead's own array
LeadAfterScore(ld) ==
    IF Has(ld, "linkedin")
    THEN [ld EXCEPT !.qualification.linkedin.experiences = ArraySort(@)]
    ELSE ld

----------------------------------------------------------------------------
(* The founder pass of score *)

\* Companies Founded that counts one company at most
CompaniesFoundedCountingOne(founder, config) ==
    IF Len(founder.companiesFounded) > 0
    THEN Fired("companiesFounded",
               Mul(MathMin(Num(Len(founder.companiesFounded)), Num(1)),
                   Rule(config, "companies_founded", "points_per_company", Q(15, 2))))
    ELSE NoSignal

\* AMBITION: Companies Founded
CompaniesFounded(founder, config) ==
    IF Len(founder.companiesFounded) > 0
    THEN LET pointsPerCompany == Rule(config, "companies_founded", "points_per_company",
                                      Q(15, 2))
             maxCompanies     == Rule(config, "companies_founded", "max_companies", Num(2))
         IN  Fired("companiesFounded",
                   Mul(MathMin(Num(Len(founder.companiesFounded)), maxCompanies),
                       pointsPerCompany))
    ELSE NoSignal

isCLevel(role) ==
    \/ includes(toLowerCase(role.title), "ceo")
    \/ includes(toLowerCase(role.title), "cto")
    \/ includes(toLowerCase(role.title), "chief")

isVP(role) ==
    \/ includes(toLowerCase(role.title), "vp")
    \/ includes(toLowerCase(role.title), "director")

\* the for loop over founder.leadershipRoles from role i on
RECURSIVE LeadershipLoop(_, _, _)
LeadershipLoop(roles, i, config) ==
    IF i > Len(roles) THEN Num(0)
    ELSE Add(IF isCLevel(roles[i])
             THEN Mul(Num(5), Rule(config, "leadership_roles", "ceo_cto_multiplier", Num(2)))
             ELSE IF isVP(roles[i])
                  THEN Mul(Num(3), Rule(config, "leadership_roles", "vp_director_multiplier",
                                        Q(3, 2)))
                  ELSE Num(0),
             LeadershipLoop(roles, i + 1, config))

\* AMBITION: Leadership Roles
LeadershipRoles(founder, config) ==
    IF Len(founder.leadershipRoles) > 0
    THEN Fired("leadershipRoles",
               MathMin(LeadershipLoop(founder.leadershipRoles, 1, config),
                       Cap(config.ambition, "leadership_roles", Num(10))))
    ELSE NoSignal

\* AMBITION: Thought Leadership
ThoughtLeadership(founder, config) ==
    LET tl == founder.thoughtLeadership
    IN  IF tl.speaking \/ tl.writing \/ tl.podcasting
        THEN LET tlScore ==
                     SumSeq(<<IF tl.speaking
                              THEN Rule(config, "thought_leadership", "speaking_points", Num(2))
                              ELSE Num(0),
                              IF tl.writing
                              THEN Rule(config, "thought_leadership", "writing_points", Num(2))
                              ELSE Num(0),
                              IF tl.podcasting
                              THEN Rule(config, "thought_leadership", "podcasting_points", Num(1))
                              ELSE Num(0)>>)
             IN  Fired("thoughtLeadership",
                       MathMin(tlScore, Cap(config.ambition, "thought_leadership", Num(5))))
        ELSE NoSignal

\* INTELLIGENCE: Top Education
TopEducation(founder, config) ==
    IF Len(founder.topEducation) > 0
    THEN LET topEdu == founder.topEducation[1]
             base   == IF topEdu.isTopTier
                       THEN Rule(config, "top_education", "top_tier_points", Num(15))
                       ELSE Rule(config, "top_education", "top_50_points", Num(10))
             eduScore == IF hasAdvancedDegree(topEdu)
                         THEN Add(base, Rule(config, "top_education", "advanced_degree_bonus",
                                             Num(3)))
                         ELSE base
         IN  Fired("topEducation",
                   MathMin(eduScore, Cap(config.intelligence, "top_education", Num(15))))
    ELSE NoSignal

\* INTELLIGENCE: Strategic Accomplishments
StrategicAccomplishments(founder, config) ==
    IF Len(founder.strategicAccomplishments) > 0
    THEN Fired("strategicAccomplishments",
               MathMin(Num(Len(founder.strategicAccomplishments) * 3),
                       Cap(config.intelligence, "strategic_accomplishments", Num(10))))
    ELSE NoSignal

\* KINDNESS: Volunteer Work
VolunteerWork(founder, config) ==
    IF Len(founder.volunteerWork) > 0
    THEN Fired("volunteerWork", Cap(config.kindness, "volunteer_work", Num(10)))
    ELSE NoSignal

\* KINDNESS: Mentorship
Mentorship(founder, config) ==
    IF founder.mentorship.isMentor
    THEN Fired("mentorship", Cap(config.kindness, "mentorship", Num(5)))
    ELSE NoSignal

\* KINDNESS: Community Building
CommunityBuilding(founder, config) ==
    IF Len(founder.communityBuilding) > 0
    THEN Fired("communityBuilding", Cap(config.kindness, "community_building", Num(5)))
    ELSE NoSignal

\* funding.round?.toLowerCase() || ''
roundOf(funding) == IF "round" \in DOMAIN funding THEN toLowerCase(funding.round) ELSE ""

\* the for loop over founder.fundingRaised from entry i on
RECURSIVE FundingLoop(_, _, _)
FundingLoop(fundings, i, config) ==
    IF i > Len(fundings) THEN Num(0)
    ELSE LET round == roundOf(fundings[i])
         IN  Add(IF includes(round, "series b") \/ includes(round, "series c")
                 THEN Rule(config, "funding_raised", "series_b_plus_points", Num(10))
                 ELSE IF includes(round, "series a")
                      THEN Rule(config, "funding_raised", "series_a_points", Num(5))
                      ELSE IF includes(round, "seed")
                           THEN Rule(config, "funding_raised", "seed_points", Num(2))
                           ELSE Num(0),
                 FundingLoop(fundings, i + 1, config))

\* TRACK RECORD: Funding Raised
FundingRaised(founder, config) ==
    IF Len(founder.fundingRaised) > 0
    THEN Fired("fundingRaised",
               MathMin(FundingLoop(founder.fundingRaised, 1, config),
                       Cap(config.trackRecord, "funding_raised", Num(10))))
    ELSE NoSignal

\* TRACK RECORD: Exits
Exits(founder, config) ==
    IF Len(founder.exits) > 0
    THEN LET exitsScore == Mul(Num(Len(founder.exits)),
                               Rule(config, "exits", "acquisition_points", Num(5)))
         IN  Fired("exits", MathMin(exitsScore, Cap(config.trackRecord, "exits", Num(5))))
    ELSE NoSignal

\* TRACK RECORD: Press Mentions
PressMentions(founder, config) ==
    IF Len(founder.pressMentions) > 0
    THEN Fired("pressMentions",
               MathMin(Mul(Num(Len(founder.pressMentions)),
                           Rule(config, "press_mentions", "points_per_mention", Num(1))),
                       Rule(config, "press_mentions", "max_mentions", Num(3))))
    ELSE NoSignal

----------------------------------------------------------------------------
(* score and generateReasoning *)

AmbitionFirst(lead, config) ==
    <<GithubProjects(lead, config), LinkedinStartups(lead, config),
      LinkedinLeadership(lead, config)>>

IntelligenceFirst(lead, config) ==
    <<GithubLanguages(lead, config), GithubContributions(lead, config),
      LinkedinEducation(lead, config), LinkedinCertifications(lead, config)>>

KindnessFirst(lead, config) ==
    <<GithubOpenSource(lead, config), LinkedinVolunteering(lead, config)>>

TrackRecordFirst(lead, config) ==
    <<GithubStars(lead, config), LinkedinPromotions(lead, config)>>

AmbitionFounder(founder, config) ==
    <<CompaniesFounded(founder, config), LeadershipRoles(founder, config),
      ThoughtLeadership(founder, config)>>

IntelligenceFounder(founder, config) ==
    <<TopEducation(founder, config), StrategicAccomplishments(founder, config)>>

KindnessFounder(founder, config) ==
    <<VolunteerWork(founder, config), Mentorship(founder, config),
      CommunityBuilding(founder, config)>>

TrackRecordFounder(founder, config) ==
    <<FundingRaised(founder, config), Exits(founder, config), PressMentions(founder, config)>>

\* every section score executes, in execution order
Sections(lead, config) ==
    AmbitionFirst(lead, config) \o IntelligenceFirst(lead, config)
        \o KindnessFirst(lead, config) \o TrackRecordFirst(lead, config)
        \o (IF Has(lead, "founder")
            THEN AmbitionFounder(lead.qualification.founder, config)
                   \o IntelligenceFounder(lead.qualification.founder, config)
                   \o KindnessFounder(lead.qualification.founder, config)
                   \o TrackRecordFounder(lead.qualification.founder, config)
            ELSE <<>>)

\* the running score of a category after the given sections
ScoreOf(sections) == SumSeq([i \in 1..Len(sections) |-> sections[i].score])

\* the signal map after the given sections
RECURSIVE SignalsOf(_)
SignalsOf(sections) ==
    IF sections = <<>> THEN EmptyMap
    ELSE sections[Len(sections)].signals @@ SignalsOf(SubSeq(sections, 1, Len(sections) - 1))

\* the breakdown object with the founder pass starting its scores from 0
BreakdownFounderReplaces(lead, config) ==
    IF Has(lead, "founder")
    THEN [ambition     |-> ScoreOf(AmbitionFounder(lead.qualification.founder, config)),
          intelligence |-> ScoreOf(IntelligenceFounder(lead.qualification.founder, config)),
          kindness     |-> ScoreOf(KindnessFounder(lead.qualification.founder, config)),
          trackRecord  |-> ScoreOf(TrackRecordFounder(lead.qualification.founder, config))]
    ELSE [ambition     |-> ScoreOf(AmbitionFirst(lead, config)),
          intelligence |-> ScoreOf(IntelligenceFirst(lead, config)),
          kindness     |-> ScoreOf(KindnessFirst(lead, config)),
          trackRecord  |-> ScoreOf(TrackRecordFirst(lead, config))]

\* the breakdown object: set after the first pass, set again after the founder pass
Breakdown(lead, config) ==
    [ambition     |-> Add(ScoreOf(AmbitionFirst(lead, config)),
                          IF Has(lead, "founder")
                          THEN ScoreOf(AmbitionFounder(lead.qualification.founder, config))
                          ELSE Num(0)),
     intelligence |-> Add(ScoreOf(IntelligenceFirst(lead, config)),
                          IF Has(lead, "founder")
                          THEN ScoreOf(IntelligenceFounder(lead.qualification.founder, config))
                          ELSE Num(0)),
     kindness     |-> Add(ScoreOf(KindnessFirst(lead, config)),
                          IF Has(lead, "founder")
                          THEN ScoreOf(KindnessFounder(lead.qualification.founder, config))
                          ELSE Num(0)),
     trackRecord  |-> Add(ScoreOf(TrackRecordFirst(lead, config)),
                          IF Has(lead, "founder")
                          THEN ScoreOf(TrackRecordFounder(lead.qualification.founder, config))
                          ELSE Num(0))]

\* totalScore = breakdown.ambition + breakdown.intelligence + breakdown.kindness + breakdown.trackRecord
TotalScore(breakdown) ==
    Add(Add(Add(breakdown.ambition, breakdown.intelligence), breakdown.kindness),
        breakdown.trackRecord)

\* the tier with strict comparisons (> in place of >=)
TierStrict(totalScore, config) ==
    IF ~Ge(config.tiers.exceptional, totalScore) THEN "exceptional"
    ELSE IF ~Ge(config.tiers.strong, totalScore) THEN "strong"
    ELSE IF ~Ge(config.tiers.good, totalScore) THEN "good"
    ELSE IF ~Ge(config.tiers.average, totalScore) THEN "average"
    ELSE "weak"

\* Determine tier
Tier(totalScore, config) ==
    IF Ge(totalScore, config.tiers.exceptional) THEN "exceptional"
    ELSE IF Ge(totalScore, config.tiers.strong) THEN "strong"
    ELSE IF Ge(totalScore, config.tiers.good) THEN "good"
    ELSE IF Ge(totalScore, config.tiers.average) THEN "average"
    ELSE "weak"

\* Math.floor(totalScore * 10) / 10
RoundTotalFloor(totalScore) == Q((10 * totalScore[1]) \div totalScore[2], 10)

\* Math.round(totalScore * 10) / 10
RoundTotal(totalScore) == Q(MathRound(Mul(totalScore, Num(10))), 10)

\* signals.[key] as a condition: the key is there and its value is not 0
Truthy(signals, key) == key \in DOMAIN signals /\ signals[key][1] # 0

Plural(n) == IF n > 1 THEN "s" ELSE ""

\* the highlight phrases of the founder block, in order
FounderReasons(founder, signals) ==
    (IF Truthy(signals, "companiesFounded") /\ Len(founder.companiesFounded) > 0
     THEN <<"Founded: " \o join([i \in 1..Len(founder.companiesFounded) |->
                                    founder.companiesFounded[i].name], ", ")>>
     ELSE <<>>)
    \o (IF Truthy(signals, "leadershipRoles") /\ Len(founder.leadershipRoles) > 0
        THEN LET firstTwo == SubSeq(founder.leadershipRoles, 1,
                                    IF Len(founder.leadershipRoles) < 2
                                    THEN Len(founder.leadershipRoles) ELSE 2)
             IN  <<join([i \in 1..Len(firstTwo) |->
                            firstTwo[i].title \o " at " \o firstTwo[i].company], ", ")>>
        ELSE <<>>)
    \o (IF Truthy(signals, "thoughtLeadership")
        THEN <<"Thought leader (speaking/writing)">> ELSE <<>>)
    \o (IF Truthy(signals, "topEducation") /\ Len(founder.topEducation) > 0
        THEN LET edu == founder.topEducation[1]
             IN  <<edu.school \o (IF "degree" \in DOMAIN edu /\ edu.degree # ""
                                  THEN " - " \o edu.degree ELSE "")>>
        ELSE <<>>)
    \o (IF Truthy(signals, "fundingRaised") /\ Len(founder.fundingRaised) > 0
        THEN <<"Raised: " \o join([i \in 1..Len(founder.fundingRaised) |->
                                      IF "round" \in DOMAIN founder.fundingRaised[i]
                                         /\ founder.fundingRaised[i].round # ""
                                      THEN founder.fundingRaised[i].round
                                      ELSE "funding"], ", ")>>
        ELSE <<>>)
    \o (IF Truthy(signals, "exits") /\ Len(founder.exits) > 0
        THEN <<NatToString(Len(founder.exits)) \o " exit" \o Plural(Len(founder.exits))>>
        ELSE <<>>)
    \o (IF Truthy(signals, "pressMentions") /\ Len(founder.pressMentions) > 0
        THEN <<NatToString(Len(founder.pressMentions)) \o " press mention"
                 \o Plural(Len(founder.pressMentions))>>
        ELSE <<>>)
    \o (IF Truthy(signals, "volunteerWork") /\ Len(founder.volunteerWork) > 0
        THEN <<"Volunteer: " \o founder.volunteerWork[1].organization>>
        ELSE <<>>)
    \o (IF Truthy(signals, "mentorship") THEN <<"Active mentor">> ELSE <<>>)

\* the highlight phrases of the GitHub block, in order
GithubReasons(lead, signals) ==
    (IF Truthy(signals, "githubProjects") /\ Has(lead, "github")
     THEN <<NatToString(lead.qualification.github.publicRepos) \o " GitHub projects">>
     ELSE <<>>)
    \o (IF Truthy(signals, "githubStars") /\ Has(lead, "github")
        THEN <<NatToString(lead.qualification.github.totalStars) \o " GitHub stars">>
        ELSE <<>>)
    \o (IF Truthy(signals, "githubOpenSource") /\ Has(lead, "github")
        THEN <<NatToString(lead.qualification.github.openSourceContributions)
                 \o " open source contributions">>
        ELSE <<>>)

\* the sentence without the case of no highlight phrase
SentenceAlwaysCandidate(reasons, tier) ==
    Capitalize(tier) \o " candidate: " \o join(reasons, ", ")

\* the sentence for the collected highlight phrases
Sentence(reasons, tier) ==
    IF Len(reasons) = 0
    THEN "Scored as " \o tier \o " based on available data"
    ELSE Capitalize(tier) \o " candidate: " \o join(reasons, ", ")

\* generateReasoning with the GitHub block before the founder block
generateReasoningGithubFirst(lead, signals, tier) ==
    Sentence(GithubReasons(lead, signals)
             \o (IF Has(lead, "founder")
                 THEN FounderReasons(lead.qualification.founder, signals)
                 ELSE <<>>),
             tier)

generateReasoning(lead, signals, tier) ==
    Sentence((IF Has(lead, "founder")
              THEN FounderReasons(lead.qualification.founder, signals)
              ELSE <<>>)
             \o GithubReasons(lead, signals),
             tier)

\* score(lead) under the held configuration: whether it threw, and the LeadScore returned
\* the LeadScore returned for the computed signals, breakdown, total and tier
LeadScore(lead, signals, breakdown, totalScore, tier) ==
    [total     |-> RoundTotal(totalScore),
     breakdown |-> breakdown,
     signals   |-> signals,
     tier      |-> tier,
     reasoning |-> generateReasoning(lead, signals, tier)]

Tiered(lead, config, signals, breakdown, totalScore) ==
    LeadScore(lead, signals, breakdown, totalScore, Tier(totalScore, config))

\* the total with each category scaled by its weight (weights.<category> / 25)
TotalledByWeights(lead, config, signals, breakdown) ==
    Tiered(lead, config, signals, breakdown,
           SumSeq(<<Mul(breakdown.ambition, Div(config.weights.ambition, Num(25))),
                    Mul(breakdown.intelligence, Div(config.weights.intelligence, Num(25))),
                    Mul(breakdown.kindness, Div(config.weights.kindness, Num(25))),
                    Mul(breakdown.trackRecord, Div(config.weights.trackRecord, Num(25)))>>))

Totalled(lead, config, signals, breakdown) ==
    Tiered(lead, config, signals, breakdown, TotalScore(breakdown))

Scored(lead, config, sections) ==
    [threw |-> \E i \in 1..Len(sections) : sections[i].threw,
     value |-> Totalled(lead, config, SignalsOf(sections), Breakdown(lead, config))]

\* score(lead) under the held configuration: whether it threw, and the LeadScore returned
score(lead, config) == Scored(lead, config, Sections(lead, config))

----------------------------------------------------------------------------
(* Configuration documents *)

\* the configuration the README shows, with the tier cutoffs of its tier table
DefaultConfig ==
    [weights      |-> [ambition |-> Num(30), intelligence |-> Num(30),
                       kindness |-> Num(20), trackRecord |-> Num(20)],
     ambition     |-> [github_projects |-> Num(10), linkedin_startups |-> Num(15),
                       linkedin_leadership |-> Num(5)],
     intelligence |-> [github_languages |-> Num(5), github_contributions |-> Num(10),
                       linkedin_education |-> Num(10), linkedin_certifications |-> Num(5)],
     kindness     |-> [github_open_source |-> Num(10), linkedin_volunteering |-> Num(10)],
     trackRecord  |-> [github_stars |-> Num(10), linkedin_promotions |-> Num(10)],
     tiers        |-> [exceptional |-> Num(80), strong |-> Num(65), good |-> Num(50),
                       average |-> Num(30)],
     scoring_rules |->
        [github_projects     |-> [min_repos |-> Num(3), max_score_repos |-> Num(10)],
         linkedin_leadership |-> [leadership_titles |-> <<"VP", "Director", "Head of">>],
         linkedin_education  |-> [top_schools |-> <<"MIT", "Stanford">>]]]

\* the same document with another tiers.exceptional
RetieredConfig == [DefaultConfig EXCEPT !.tiers.exceptional = Num(68)]

\* a document that sets every tunable, with low thresholds
TunedConfig ==
    [weights      |-> [ambition |-> Num(40), intelligence |-> Num(30),
                       kindness |-> Num(10), trackRecord |-> Num(20)],
     ambition     |-> [github_projects |-> Num(8), linkedin_startups |-> Num(6),
                       linkedin_leadership |-> Num(4), leadership_roles |-> Num(12),
                       thought_leadership |-> Num(3)],
     intelligence |-> [github_languages |-> Num(4), github_contributions |-> Num(6),
                       linkedin_education |-> Num(8), linkedin_certifications |-> Num(3),
                       top_education |-> Num(12), strategic_accomplishments |-> Num(6)],
     kindness     |-> [github_open_source |-> Num(5), linkedin_volunteering |-> Num(3),
                       volunteer_work |-> Num(4), mentorship |-> Num(2),
                       community_building |-> Num(2)],
     trackRecord  |-> [github_stars |-> Num(7), linkedin_promotions |-> Num(6),
                       funding_raised |-> Num(8), exits |-> Num(6)],
     tiers        |-> [exceptional |-> Num(61), strong |-> Num(30), good |-> Num(22),
                       average |-> Num(8)],
     scoring_rules |->
        [github_projects      |-> [min_repos |-> Num(2), max_score_repos |-> Num(4)],
         github_languages     |-> [min_languages |-> Num(1), max_score_languages |-> Num(3)],
         github_contributions |-> [min_contributions |-> Num(3),
                                   max_score_contributions |-> Num(7)],
         github_open_source   |-> [min_contributions |-> Num(2),
                                   max_score_contributions |-> Num(6)],
         github_stars         |-> [min_stars |-> Num(4), max_score_stars |-> Num(9)],
         linkedin_startups    |-> [founder_multiplier |-> Q(3, 2)],
         linkedin_leadership  |-> [leadership_titles |-> <<"chief", "vp">>],
         linkedin_education   |-> [top_schools |-> <<"stanford", "mit">>,
                                   advanced_degree_bonus |-> Q(1, 2)],
         linkedin_promotions  |-> [max_score_promotions |-> Num(2)],
         companies_founded    |-> [points_per_company |-> Num(4), max_companies |-> Num(3)],
         leadership_roles     |-> [ceo_cto_multiplier |-> Num(1),
                                   vp_director_multiplier |-> Num(1)],
         thought_leadership   |-> [speaking_points |-> Num(1), writing_points |-> Num(1),
                                   podcasting_points |-> Num(1)],
         top_education        |-> [top_tier_points |-> Num(9), top_50_points |-> Num(6),
                                   advanced_degree_bonus |-> Num(2)],
         funding_raised       |-> [series_b_plus_points |-> Num(6), series_a_points |-> Num(3),
                                   seed_points |-> Num(1)],
         exits                |-> [acquisition_points |-> Num(2)],
         press_mentions       |-> [points_per_mention |-> Q(1, 2), max_mentions |-> Num(2)]]]

\* the README's document with points for GitHub projects from the first
\* repository on
ZeroMinimumConfig == [DefaultConfig EXCEPT !.scoring_rules.github_projects.min_repos = Num(0)]

\* a document with no scoring_rules at all
BareConfig ==
    [weights      |-> DefaultConfig.weights,
     ambition     |-> DefaultConfig.ambition,
     intelligence |-> DefaultConfig.intelligence,
     kindness     |-> DefaultConfig.kindness,
     trackRecord  |-> DefaultConfig.trackRecord,
     tiers        |-> [exceptional |-> Num(43), strong |-> Num(25), good |-> Num(15),
                       average |-> Num(10)]]

ConfigDocs == {DefaultConfig, TunedConfig, BareConfig}

----------------------------------------------------------------------------
(* Profile bundles *)

GithubProfile(repos, languages, stars, lastYear, openSource) ==
    [publicRepos |-> repos, topLanguages |-> languages, totalStars |-> stars,
     contributions |-> [total |-> lastYear, lastYear |-> lastYear],
     openSourceContributions |-> openSource]

GithubProfiles ==
    {GithubProfile(12, <<"TS", "Go", "Rust">>, 600, 1200, 150),
     GithubProfile(2, <<"JS">>, 10, 50, 5),
     GithubProfile(5, <<"TS", "Go">>, 250, 995, 50)}

Experiences ==
    {[title |-> "Founder & CEO", company |-> "Acme", startDate |-> "2021-03"],
     [title |-> "Software Engineer", company |-> "Acme", startDate |-> "2019-06"],
     [title |-> "VP Engineering", company |-> "Globex", startDate |-> "Present"],
     [title |-> "Product Lead", company |-> "Globex", startDate |-> "2019-06"]}

ExperienceLists == UNION {[1..n -> Experiences] : n \in 0..MaxExp}

EducationLists ==
    {<<>>,
     <<[school |-> "Ohio State"]>>,
     <<[school |-> "MIT", degree |-> "BS"]>>,
     <<[school |-> "Ohio State", degree |-> "BA"],
       [school |-> "MIT", degree |-> "PhD"]>>,
     <<[school |-> "MIT", degree |-> "BS"],
       [school |-> "Stanford University", degree |-> "Master of Science"]>>,
     <<[school |-> "Ohio State"], [school |-> "Kent State", degree |-> "PhD"]>>,
     <<[school |-> "Kent State", degree |-> "BA"],
       [school |-> "Stanford University", degree |-> "BS"]>>}

Certifications == <<[name |-> "AWS SA", authority |-> "AWS"],
                    [name |-> "CKA", authority |-> "CNCF"],
                    [name |-> "PMP", authority |-> "PMI"]>>

Volunteering == <<[organization |-> "Code Club", role |-> "Mentor"]>>

LinkedinProfile(experiences, education, certifications, volunteering) ==
    [experiences |-> experiences, education |-> education,
     certifications |-> certifications, volunteering |-> volunteering]

\* profiles that differ in education, certifications and volunteering
LinkedinProfiles ==
    {LinkedinProfile(<<>>, ed, <<>>, <<>>) : ed \in EducationLists}
    \cup {LinkedinProfile(<<>>, ed, Certifications, Volunteering) : ed \in EducationLists}

\* profiles that differ in the list of experiences
CareerProfiles == {LinkedinProfile(e, <<>>, <<>>, <<>>) : e \in ExperienceLists}

HunterProfiles == {[email |-> "lead@example.com", verified |-> TRUE, confidence |-> 90]}

EmptyFounder ==
    [companiesFounded |-> <<>>, leadershipRoles |-> <<>>,
     thoughtLeadership |-> [speaking |-> FALSE, writing |-> FALSE, podcasting |-> FALSE],
     topEducation |-> <<>>, strategicAccomplishments |-> <<>>, volunteerWork |-> <<>>,
     mentorship |-> [isMentor |-> FALSE], communityBuilding |-> <<>>,
     fundingRaised |-> <<>>, exits |-> <<>>, pressMentions |-> <<>>]

FounderProfiles ==
    {EmptyFounder,
     [EmptyFounder EXCEPT
        !.companiesFounded = <<[name |-> "Acme"], [name |-> "Globex"]>>,
        !.exits = <<[company |-> "Acme"]>>],
     [EmptyFounder EXCEPT
        !.leadershipRoles = <<[title |-> "Director of Sales", company |-> "Initech"]>>],
     [EmptyFounder EXCEPT
        !.companiesFounded = <<[name |-> "Acme"], [name |-> "Globex"], [name |-> "Hooli"]>>,
        !.leadershipRoles = <<[title |-> "CEO", company |-> "Acme"],
                              [title |-> "VP Marketing", company |-> "Globex"],
                              [title |-> "Advisor", company |-> "Hooli"]>>,
        !.thoughtLeadership = [speaking |-> TRUE, writing |-> TRUE, podcasting |-> TRUE],
        !.topEducation = <<[school |-> "MIT", degree |-> "PhD", isTopTier |-> TRUE]>>,
        !.strategicAccomplishments = <<"Opened the EU market", "Led a merger",
                                       "Built the platform team", "Signed a key partner">>,
        !.volunteerWork = <<[organization |-> "Code Club"]>>,
        !.mentorship = [isMentor |-> TRUE],
        !.communityBuilding = <<"Runs a founders meetup">>,
        !.fundingRaised = <<[company |-> "Acme", round |-> "Series B"],
                            [company |-> "Globex", round |-> "Seed"],
                            [company |-> "Hooli"]>>,
        !.exits = <<[company |-> "Acme"], [company |-> "Globex"]>>,
        !.pressMentions = <<[title |-> "a"], [title |-> "b"], [title |-> "c"],
                            [title |-> "d"], [title |-> "e"]>>]}

\* a sub-profile that is absent, or present with one of the given values
Optional(name, profiles) == {EmptyMap} \cup {name :> p : p \in profiles}

Lead(qualification) == [email |-> "lead@example.com", qualification |-> qualification]

\* every subset of the four sub-profiles, and every career
Bundles ==
    {Lead(g @@ l @@ h @@ f) :
        g \in Optional("github", GithubProfiles),
        l \in Optional("linkedin", LinkedinProfiles),
        h \in Optional("hunter", HunterProfiles),
        f \in Optional("founder", FounderProfiles)}
    \cup {Lead("linkedin" :> l) : l \in CareerProfiles}

----------------------------------------------------------------------------
(* The LeadScorer instance: constructor, reloadConfig, getConfig, score *)

\* path.join(__dirname, 'config.yaml')
DefaultPath == "config.yaml"

CustomPath == "custom.yaml"

Paths == {DefaultPath, CustomPath}

\* the configPath argument: omitted ("" here), or a path
PathArgs == {"", CustomPath}

LifecycleDocs == {DefaultConfig, RetieredConfig}

\* what a path holds: a document that parses, no readable file, or text that does not parse
FileContents ==
    {[kind |-> "yaml", doc |-> c] : c \in LifecycleDocs}
    \cup {[kind |-> "missing", doc |-> EmptyMap], [kind |-> "malformed", doc |-> EmptyMap]}

\* configPath || defaultPath
FilePath(configPath) == IF configPath # "" THEN configPath ELSE DefaultPath

\* fs.readFileSync(filePath, 'utf8') followed by yaml.load(fileContents)
Load(fs, filePath) ==
    IF fs[filePath].kind = "missing" THEN [error |-> "ENOENT", config |-> EmptyMap]
    ELSE IF fs[filePath].kind = "malformed" THEN [error |-> "YAMLException", config |-> EmptyMap]
    ELSE [error |-> "none", config |-> fs[filePath].doc]

NoScorer == [constructed |-> FALSE, config |-> EmptyMap]

\* new LeadScorer(configPath)
Constructor(configPath) ==
    /\ ~scorer.constructed
    /\ LET loaded == Load(files, FilePath(configPath))
       IN  /\ thrown' = loaded.error
           /\ scorer' = IF loaded.error = "none"
                        THEN [constructed |-> TRUE, config |-> loaded.config]
                        ELSE scorer
    /\ last' = [op |-> "constructor", path |-> FilePath(configPath)]
    /\ UNCHANGED <<files, leadObj, results, calls, given, batch>>

\* a reloadConfig that catches the load error, logs it and returns
ReloadConfigSwallowing(configPath) ==
    /\ scorer.constructed
    /\ thrown' = "none"
    /\ scorer' = IF Load(files, FilePath(configPath)).error = "none"
                 THEN [scorer EXCEPT !.config = Load(files, FilePath(configPath)).config]
                 ELSE scorer
    /\ last' = [op |-> "reloadConfig", path |-> FilePath(configPath)]
    /\ UNCHANGED <<files, leadObj, results, calls, given, batch>>

\* a reloadConfig on a scorer whose returned results read their tier from the
\* held configuration
ReloadConfigRetiering(configPath) ==
    /\ scorer.constructed
    /\ thrown' = Load(files, FilePath(configPath)).error
    /\ scorer' = IF Load(files, FilePath(configPath)).error = "none"
                 THEN [scorer EXCEPT !.config = Load(files, FilePath(configPath)).config]
                 ELSE scorer
    /\ results' = [i \in 1..Len(results) |->
                     [results[i] EXCEPT
                        !.tier = Tier(TotalScore(results[i].breakdown), scorer'.config)]]
    /\ last' = [op |-> "reloadConfig", path |-> FilePath(configPath)]
    /\ UNCHANGED <<files, leadObj, calls, given, batch>>

\* scorer.reloadConfig(configPath)
ReloadConfig(configPath) ==
    /\ scorer.constructed
    /\ LET loaded == Load(files, FilePath(configPath))
       IN  /\ thrown' = loaded.error
           /\ scorer' = IF loaded.error = "none"
                        THEN [scorer EXCEPT !.config = loaded.config]
                        ELSE scorer
    /\ last' = [op |-> "reloadConfig", path |-> FilePath(configPath)]
    /\ UNCHANGED <<files, leadObj, results, calls, given, batch>>

\* scorer.getConfig()
getConfig == scorer.config

\* the operator edits, removes or breaks a configuration file
EditFile(path, content) ==
    /\ files[path] # content
    /\ files' = [files EXCEPT ![path] = content]
    /\ last' = [op |-> "edit", path |-> path]
    /\ UNCHANGED <<scorer, leadObj, results, calls, given, thrown, batch>>

\* what the caller of score sees: the exception, or the LeadScore and the sorted lead
Returned(out) ==
    IF out.threw
    THEN /\ thrown' = "TypeError"
         /\ UNCHANGED <<results, calls, leadObj>>
    ELSE /\ thrown' = "none"
         /\ results' = Append(results, out.value)
         /\ calls' = Append(calls, scorer.config)
         /\ leadObj' = LeadAfterScore(leadObj)

\* scorer.score(leadObj): the caller keeps the returned LeadScore
ScoreCall ==
    /\ scorer.constructed
    /\ Len(results) < MaxResults
    /\ Returned(score(leadObj, scorer.config))
    /\ last' = [op |-> "score", path |-> last.path]
    /\ UNCHANGED <<files, scorer, given, batch>>

----------------------------------------------------------------------------
(* Batch qualification: qualifyLeads runs the qualifyLead pipelines of its   *)
(* leads batch by batch. A step of a pipeline is the code between two awaits; *)
(* the step after the last await goes on into score, which reads this.config  *)
(* section by section and once more for the tiers.                            *)

\* score up to totalScore: every read of this.config but the tiers
SectionsPass(lead, config) ==
    [signals |-> SignalsOf(Sections(lead, config)), breakdown |-> Breakdown(lead, config)]

\* score from the tier on: the LeadScore it returns
TierPass(lead, config, partial) ==
    Tiered(lead, config, partial.signals, partial.breakdown, TotalScore(partial.breakdown))

\* the score field a pipeline starts with
InitialScore ==
    [total |-> Num(0),
     breakdown |-> [ambition |-> Num(0), intelligence |-> Num(0), kindness |-> Num(0),
                    trackRecord |-> Num(0)],
     signals |-> EmptyMap, tier |-> "weak", reasoning |-> "No data available for scoring"]

\* what the data sources find for a lead
BatchGithub == GithubProfile(12, <<"TS", "Go", "Rust">>, 600, 1200, 150)

BatchHunter ==
    [email |-> "lead@example.com", verified |-> TRUE, confidence |-> 90,
     linkedinUrl |-> "https://www.linkedin.com/in/lead"]

BatchFounder ==
    [EmptyFounder EXCEPT !.companiesFounded = <<[name |-> "Acme"], [name |-> "Globex"]>>,
                         !.exits = <<[company |-> "Acme"]>>]

\* a lead of the batch whose qualifyLead has not been called yet
IdlePipe ==
    [pc |-> "idle", lead |-> Lead(EmptyMap), scoreCalls |-> 0, partial |-> EmptyMap,
     score |-> InitialScore, costUsd |-> Num(0), closing |-> FALSE]

\* browser is the browser field of the one LinkedInCrawler (0 for null, else
\* the browser launched by the pipeline of that position); browsers tells of
\* the browser each pipeline launched whether it is open
NoBatch ==
    [phase |-> "none", gemini |-> FALSE, maxConcurrent |-> 0, i |-> 0, pipes |-> <<>>,
     results |-> <<>>, progress |-> <<>>, stack |-> 0, browser |-> 0, browsers |-> <<>>]

\* an engine that runs other callbacks while a call of score is on the stack
StackAlwaysFree == TRUE

\* score is a synchronous method: while a call of it is on the stack no other
\* callback runs
StackFree == batch.stack = 0

\* a slice that takes one lead more
SliceOneMore(begin, end, n) == {k \in 1..n : begin < k /\ k <= end + 1}

\* the pipelines of leads.slice(begin, end), as 1-based positions
Slice(begin, end, n) == {k \in 1..n : begin < k /\ k <= end}

\* the loop test, and a loop body up to its await Promise.all(batch.map(...))
Launched(b) ==
    IF b.i < Len(b.pipes)
    THEN [b EXCEPT !.phase = "running",
                   !.pipes = [k \in 1..Len(b.pipes) |->
                                 IF k \in Slice(b.i, b.i + b.maxConcurrent, Len(b.pipes))
                                 THEN [IdlePipe EXCEPT !.pc = "github"] ELSE b.pipes[k]]]
    ELSE [b EXCEPT !.phase = "done"]

\* orchestrator.qualifyLeads(leads, options), with option 0 for an omitted maxConcurrent
QualifyLeads(n, option) ==
    /\ scorer.constructed
    /\ batch.phase = "none"
    /\ batch' = Launched([batch EXCEPT !.maxConcurrent = IF option # 0 THEN option ELSE 3,
                                       !.pipes = [k \in 1..n |-> IdlePipe],
                                       !.browsers = [k \in 1..n |-> "none"]])
    /\ UNCHANGED <<files, scorer, leadObj, results, thrown, calls, given, last>>

WithProfile(lead, name, profile) ==
    [lead EXCEPT !.qualification = (name :> profile) @@ @]

\* the pipeline reaches step 4: score is called and runs up to totalScore
EnterScore(b, p, pipe, config) ==
    [b EXCEPT !.stack = p,
              !.pipes[p] = [pipe EXCEPT !.pc = "tier",
                                        !.scoreCalls = @ + 1,
                                        !.partial = SectionsPass(pipe.lead, config),
                                        !.lead = LeadAfterScore(pipe.lead)]]

AtStep(p, pc) == StackFree /\ p \in 1..Len(batch.pipes) /\ batch.pipes[p].pc = pc

Others == <<files, scorer, leadObj, results, thrown, calls, given, last>>

\* the leads of the list with a GitHub account: the first, the third, ...
HasGithubAccount(p) == p % 2 = 1

\* 1. GitHub: qualifyByEmail resolves, to the profile of the lead or to null
GithubDone(p) ==
    /\ AtStep(p, "github")
    /\ batch' = [batch EXCEPT !.pipes[p].pc = "hunter",
                              !.pipes[p].lead =
                                  IF HasGithubAccount(p)
                                  THEN WithProfile(@, "github", BatchGithub) ELSE @]
    /\ UNCHANGED Others

HunterFound(pipe) ==
    [pipe EXCEPT !.lead = WithProfile(@, "hunter", BatchHunter), !.costUsd = Q(1, 100)]

\* 2. Hunter: verifyEmail resolves or rejects; 3. the founder block is entered
\* when there is an extractor and a Hunter profile, and crawls the LinkedIn URL
HunterDone(p, found) ==
    /\ AtStep(p, "hunter")
    /\ batch' = IF found /\ batch.gemini
                THEN [batch EXCEPT !.pipes[p] = [HunterFound(@) EXCEPT !.pc = "crawl"]]
                ELSE EnterScore(batch, p,
                                IF found THEN HunterFound(batch.pipes[p]) ELSE batch.pipes[p],
                                scorer.config)
    /\ UNCHANGED Others

\* crawlProfile from its call to its return (to the crawled data or to null),
\* taken as one step
CrawlDone(p) ==
    /\ AtStep(p, "crawl")
    /\ batch' = [batch EXCEPT !.pipes[p].pc = "search"]
    /\ UNCHANGED Others

\* this.browser.close() is called: the browser the field points to is closed
\* from the call on (closing a closed browser changes nothing)
BrowserClose(b) == [b EXCEPT !.browsers[b.browser] = "closed"]

\* chromium.launch() resolves: this.browser = the new browser, and newContext
\* is called on it
LaunchDone(p) ==
    /\ AtStep(p, "crawl")
    /\ batch' = [batch EXCEPT !.browser = p, !.browsers[p] = "open",
                              !.pipes[p].pc = "context"]
    /\ UNCHANGED Others

\* the catch block of crawlProfile: if (this.browser) await this.browser.close()
CrawlCatch(b, p) ==
    IF b.browser # 0
    THEN [BrowserClose(b) EXCEPT !.pipes[p].pc = "catching"]
    ELSE [b EXCEPT !.pipes[p].pc = "search"]

\* newContext resolves and the page is opened and loaded, or the browser of
\* the context has been closed and the call rejects
ContextDone(p) ==
    /\ AtStep(p, "context")
    /\ batch' = IF batch.browsers[p] = "open"
                THEN [batch EXCEPT !.pipes[p].pc = "page"]
                ELSE CrawlCatch(batch, p)
    /\ UNCHANGED Others

\* page.content() resolves, the profile is extracted and this.browser.close()
\* is called (a TypeError when the field is null), or the call rejects
PageDone(p) ==
    /\ AtStep(p, "page")
    /\ batch' = IF batch.browsers[p] = "open" /\ batch.browser # 0
                THEN [BrowserClose(batch) EXCEPT !.pipes[p].pc = "closing"]
                ELSE CrawlCatch(batch, p)
    /\ UNCHANGED Others

\* this.browser.close() resolves, in the try or in the catch block:
\* this.browser = null, and crawlProfile returns
CrawlReturn(p) ==
    /\ AtStep(p, "closing") \/ AtStep(p, "catching")
    /\ batch' = [batch EXCEPT !.browser = 0, !.pipes[p].pc = "search"]
    /\ UNCHANGED Others

\* the finally block calls linkedinCrawler.close(): if (this.browser) await
\* this.browser.close()
FinallyClose(b, p) ==
    IF b.browser # 0
    THEN [BrowserClose(b) EXCEPT !.pipes[p].pc = "close", !.pipes[p].closing = TRUE]
    ELSE [b EXCEPT !.pipes[p].pc = "close"]

\* the searches resolve, with something to extract from or with nothing, or reject
SearchDone(p, hasData) ==
    /\ AtStep(p, "search")
    /\ batch' = IF hasData THEN [batch EXCEPT !.pipes[p].pc = "extract"]
                ELSE FinallyClose(batch, p)
    /\ UNCHANGED Others

\* extractFounderSignals resolves or rejects
ExtractDone(p, extracted) ==
    /\ AtStep(p, "extract")
    /\ batch' = FinallyClose([batch EXCEPT !.pipes[p].lead =
                                  IF extracted THEN WithProfile(@, "founder", BatchFounder)
                                  ELSE @],
                             p)
    /\ UNCHANGED Others

\* finally: linkedinCrawler.close() resolves, after this.browser = null when
\* it closed a browser
CloseDone(p) ==
    /\ AtStep(p, "close")
    /\ batch' = EnterScore([batch EXCEPT !.browser = IF batch.pipes[p].closing THEN 0 ELSE @],
                           p, [batch.pipes[p] EXCEPT !.closing = FALSE], scorer.config)
    /\ UNCHANGED Others

\* score classifies the total and returns; qualifyLead returns its result
ScoreReturn(p) ==
    /\ batch.stack = p
    /\ p \in 1..Len(batch.pipes)
    /\ batch.pipes[p].pc = "tier"
    /\ batch' = [batch EXCEPT !.stack = 0,
                              !.pipes[p].pc = "done",
                              !.pipes[p].partial = EmptyMap,
                              !.pipes[p].score =
                                  TierPass(batch.pipes[p].lead, scorer.config,
                                           batch.pipes[p].partial)]
    /\ UNCHANGED Others

\* the QualificationResult of a pipeline
QualificationResult(pipe) ==
    [success |-> DOMAIN pipe.lead.qualification # {},
     lead |-> pipe.lead, score |-> pipe.score, costUsd |-> pipe.costUsd]

\* the number of leads in leads.slice(i, i + maxConcurrent)
BatchLength(b) == IF b.i + b.maxConcurrent < Len(b.pipes) THEN b.maxConcurrent
                  ELSE Len(b.pipes) - b.i

\* Promise.all resolves: the results are pushed, progress is reported, and the
\* loop goes on to its delay or ends
BatchDone ==
    /\ StackFree
    /\ batch.phase = "running"
    /\ \A k \in Slice(batch.i, batch.i + batch.maxConcurrent, Len(batch.pipes)) :
           batch.pipes[k].pc = "done"
    /\ batch' = [batch EXCEPT
                   !.results = @ \o [idx \in 1..BatchLength(batch) |->
                                         QualificationResult(batch.pipes[batch.i + idx])],
                   !.progress = @ \o [idx \in 1..BatchLength(batch) |-> batch.i + idx],
                   !.phase = IF batch.i + batch.maxConcurrent < Len(batch.pipes)
                             THEN "delay" ELSE "done",
                   !.i = IF batch.i + batch.maxConcurrent < Len(batch.pipes)
                         THEN @ ELSE @ + batch.maxConcurrent]
    /\ UNCHANGED Others

\* the delay is over: i += maxConcurrent and the next batch is launched
DelayDone ==
    /\ StackFree
    /\ batch.phase = "delay"
    /\ batch' = Launched([batch EXCEPT !.i = @ + batch.maxConcurrent])
    /\ UNCHANGED Others

\* a reloadConfig between two steps of the pipelines
BatchReload(configPath) == StackFree /\ ReloadConfig(configPath)

----------------------------------------------------------------------------
(* The search flow of the orchestrator: qualifyLead validates the name,       *)
(* searches, and has the search results analysed; qualifyLeads runs it batch  *)
(* by batch.                                                                  *)

\* the k-th lead of the list given to qualifyLeads
SearchLead(k) == [email |-> "lead" \o NatToString(k) \o "@example.com"]

\* return { success: false, lead: null, costUsd: 0, error }
Unqualified(error) ==
    [success |-> FALSE, lead |-> "null", costUsd |-> Num(0), error |-> error]

\* return { success: true, lead: qualifiedLead, costUsd: 0.01 }
Qualified(lead) == [success |-> TRUE, lead |-> lead, costUsd |-> Q(1, 100)]

SearchPipe(pc) == [pc |-> pc, result |-> Unqualified("")]

\* the loop test, and a loop body up to its await Promise.all(batch.map(...))
SearchLaunched(b) ==
    IF b.i < Len(b.pipes)
    THEN [b EXCEPT !.phase = "running",
                   !.pipes = [k \in 1..Len(b.pipes) |->
                                 IF k \in Slice(b.i, b.i + b.maxConcurrent, Len(b.pipes))
                                 THEN SearchPipe("name") ELSE b.pipes[k]]]
    ELSE [b EXCEPT !.phase = "done"]

\* qualifyLeads(leads, options) of the search flow, with option 0 for an
\* omitted maxConcurrent
SearchQualifyLeads(n, option) ==
    /\ batch.phase = "none"
    /\ batch' = SearchLaunched([batch EXCEPT
                                  !.maxConcurrent = IF option # 0 THEN option ELSE 3,
                                  !.pipes = [k \in 1..n |-> SearchPipe("idle")]])
    /\ UNCHANGED Others

AtSearchStep(p, pc) == p \in 1..Len(batch.pipes) /\ batch.pipes[p].pc = pc

\* STEP 1: processName resolves, to a full name or to none
NameDone(p, isValid) ==
    /\ AtSearchStep(p, "name")
    /\ batch' = IF isValid
                THEN [batch EXCEPT !.pipes[p].pc = "search"]
                ELSE [batch EXCEPT !.pipes[p] =
                         [pc |-> "done", result |-> Unqualified("Name validation failed")]]
    /\ UNCHANGED Others

\* STEP 2: the four searches resolve (each catches its own errors); STEP 3
\* needs the extractor
SearchesDone(p, totalResults) ==
    /\ AtSearchStep(p, "search")
    /\ batch' = IF totalResults = 0
                THEN [batch EXCEPT !.pipes[p] =
                         [pc |-> "done",
                          result |-> Unqualified("No online information found")]]
                ELSE IF ~batch.gemini
                     THEN [batch EXCEPT !.pipes[p] =
                              [pc |-> "done",
                               result |-> Unqualified("Gemini API required for qualification")]]
                     ELSE [batch EXCEPT !.pipes[p].pc = "analyze"]
    /\ UNCHANGED Others

\* STEP 3, 4: analyzeAndRank resolves and the qualified lead is returned, or
\* it throws and nothing catches: the promise of qualifyLead rejects
AnalysisDone(p, analysed) ==
    /\ AtSearchStep(p, "analyze")
    /\ batch' = IF analysed
                THEN [batch EXCEPT !.pipes[p] =
                         [pc |-> "done", result |-> Qualified(SearchLead(p))]]
                ELSE [batch EXCEPT !.pipes[p].pc = "rejected"]
    /\ UNCHANGED Others

\* Promise.all rejects with the first rejection of a pipeline of the batch:
\* the await throws, and the promise of qualifyLeads rejects
SearchBatchRejected ==
    /\ batch.phase = "running"
    /\ \E k \in Slice(batch.i, batch.i + batch.maxConcurrent, Len(batch.pipes)) :
           batch.pipes[k].pc = "rejected"
    /\ batch' = [batch EXCEPT !.phase = "rejected"]
    /\ UNCHANGED Others

\* Promise.all resolves: the results are pushed, progress is reported, and the
\* loop goes on with the next batch or returns the results
SearchBatchDone ==
    /\ batch.phase = "running"
    /\ \A k \in Slice(batch.i, batch.i + batch.maxConcurrent, Len(batch.pipes)) :
           batch.pipes[k].pc = "done"
    /\ batch' = SearchLaunched(
                    [batch EXCEPT
                       !.results = @ \o [idx \in 1..BatchLength(batch) |->
                                             batch.pipes[batch.i + idx].result],
                       !.progress = @ \o [idx \in 1..BatchLength(batch) |-> batch.i + idx],
                       !.i = @ + batch.maxConcurrent])
    /\ UNCHANGED Others

----------------------------------------------------------------------------
(* Scoring: a scorer constructed from one of the documents scores one bundle *)

Init ==
    \E c \in ConfigDocs, b \in Bundles :
        /\ files = [p \in Paths |-> IF p = DefaultPath
                                    THEN [kind |-> "yaml", doc |-> c]
                                    ELSE [kind |-> "missing", doc |-> EmptyMap]]
        /\ scorer = [constructed |-> TRUE, config |-> c]
        /\ leadObj = b
        /\ given = b
        /\ results = <<>>
        /\ calls = <<>>
        /\ thrown = "none"
        /\ last = [op |-> "constructor", path |-> DefaultPath]
        /\ batch = NoBatch

Next == ScoreCall

Spec == Init /\ [][Next]_vars

----------------------------------------------------------------------------
(* Properties of score *)

Zero == Num(0)

\* the lead without one of its sub-profiles
Without(lead, profile) ==
    [lead EXCEPT !.qualification = [q \in (DOMAIN @) \ {profile} |-> @[q]]]

\* C1: for a bundle with no sub-profile, score returns total 0, the four
\* breakdown categories 0, an empty signal map, tier weak and the reasoning
\* 'Scored as weak based on available data'
EmptyBundleScoresWeak ==
    DOMAIN given.qualification = {} =>
        /\ last.op = "score" => thrown = "none" /\ Len(results) >= 1
        /\ \A i \in 1..Len(results) :
              results[i] = [total     |-> Zero,
                            breakdown |-> [ambition |-> Zero, intelligence |-> Zero,
                                           kindness |-> Zero, trackRecord |-> Zero],
                            signals   |-> EmptyMap,
                            tier      |-> "weak",
                            reasoning |-> "Scored as weak based on available data"]

EmptyBundleScored == DOMAIN given.qualification = {} /\ Len(results) >= 1

\* C2: score raises for no subset of github, linkedin, hunter, founder being
\* present, also when the lists of a present sub-profile are empty, and the
\* bundle without one of its sub-profiles never gets a higher total
NeverRaisesOnlyUnderScores ==
    /\ thrown # "TypeError"
    /\ last.op = "score" => Len(results) >= 1
    /\ \A i \in 1..Len(results) : \A profile \in DOMAIN given.qualification :
          /\ ~score(Without(given, profile), calls[i]).threw
          /\ Ge(results[i].total, score(Without(given, profile), calls[i]).value.total)

EmptyListsScored ==
    /\ Len(results) >= 1
    /\ DOMAIN given.qualification = {"linkedin", "founder"}
    /\ given.qualification.linkedin = LinkedinProfile(<<>>, <<>>, <<>>, <<>>)
    /\ given.qualification.founder = EmptyFounder

\* total is sum rounded to one decimal, halves upwards: total = k / 10 with
\* k - 1/2 <= 10 * sum < k + 1/2
IsRoundedToOneDecimal(total, sum) ==
    /\ 10 % total[2] = 0
    /\ (2 * (total[1] * (10 \div total[2])) - 1) * sum[2] <= 20 * sum[1]
    /\ 20 * sum[1] < (2 * (total[1] * (10 \div total[2])) + 1) * sum[2]

\* ambition + intelligence + kindness + trackRecord of a returned breakdown
BreakdownSum(breakdown) ==
    SumSeq(<<breakdown.ambition, breakdown.intelligence, breakdown.kindness,
             breakdown.trackRecord>>)

\* C3: the returned total is the sum of the four returned breakdown values
\* rounded to one decimal
TotalIsRoundedBreakdownSum ==
    \A i \in 1..Len(results) :
        IsRoundedToOneDecimal(results[i].total, BreakdownSum(results[i].breakdown))

RoundingChangedTotal ==
    \E i \in 1..Len(results) :
        /\ results[i].total # BreakdownSum(results[i].breakdown)
        /\ Ge(results[i].total, BreakdownSum(results[i].breakdown))

\* the bundle has two education entries of which only the second is of a
\* configured top school
SecondEntryOnlyMatches(lead, config) ==
    /\ Has(lead, "linkedin")
    /\ Len(lead.qualification.linkedin.education) = 2
    /\ ~isTopSchool(lead.qualification.linkedin.education[1],
                    RuleList(config, "linkedin_education", "top_schools"))
    /\ isTopSchool(lead.qualification.linkedin.education[2],
                   RuleList(config, "linkedin_education", "top_schools"))

\* C6 as claimed: with two education entries of which only the second matches
\* a top school, the linkedinEducation signal is 0
SecondMatchScoresZero ==
    \A i \in 1..Len(results) :
        SecondEntryOnlyMatches(given, calls[i]) =>
            /\ "linkedinEducation" \in DOMAIN results[i].signals
            /\ results[i].signals.linkedinEducation = Zero

\* C6 as amended: with two education entries of which only the second matches
\* a top school, the linkedinEducation signal is the base score
\* intelligence.linkedin_education, multiplied by 1 + advanced_degree_bonus
\* (default 0.3) when the second entry's degree is an advanced one
SecondMatchScoresBase ==
    \A i \in 1..Len(results) :
        SecondEntryOnlyMatches(given, calls[i]) =>
            /\ "linkedinEducation" \in DOMAIN results[i].signals
            /\ results[i].signals.linkedinEducation =
                 IF hasAdvancedDegree(given.qualification.linkedin.education[2])
                 THEN Mul(calls[i].intelligence.linkedin_education,
                          Add(Num(1), Rule(calls[i], "linkedin_education",
                                           "advanced_degree_bonus", Q(3, 10))))
                 ELSE calls[i].intelligence.linkedin_education

SecondMatchScored ==
    /\ Len(results) >= 1
    /\ SecondEntryOnlyMatches(given, calls[1])
    /\ ~hasAdvancedDegree(given.qualification.linkedin.education[2])
    /\ results[1].signals.linkedinEducation = Num(10)

TierNames == <<"exceptional", "strong", "good", "average">>

ScoreIsDeterministic ==
    \A i, j \in 1..Len(results) : calls[i] = calls[j] => results[i] = results[j]

SameObjectScoredAgain ==
    /\ Len(results) >= 2
    /\ calls[1] = calls[2]
    /\ leadObj # given

\* C11: under the default configuration the returned total lies between 0
\* and 100, whichever of the profiles are present and whichever signals fire
TotalWithinHundred ==
    \A i \in 1..Len(results) :
        calls[i] = DefaultConfig
            => Ge(results[i].total, Zero) /\ Ge(Num(100), results[i].total)

\* C12: the signal map is sparse: every key in it is a signal that fired and
\* contributed points, so every value in it is above 0 and no signal is in
\* the map with the value 0
SignalMapIsSparse ==
    \A i \in 1..Len(results) :
        \A key \in DOMAIN results[i].signals :
            Ge(results[i].signals[key], Zero) /\ results[i].signals[key] # Zero

startsWith(str, prefix) ==
    Len(str) >= Len(prefix) /\ SubSeq(str, 1, Len(prefix)) = prefix

SomeSignalFired(result) ==
    \E key \in DOMAIN result.signals : result.signals[key] # Zero

NoDataSentence(result) == "Scored as " \o result.tier \o " based on available data"

SentenceTellsFiring(result) ==
    /\ result.reasoning = NoDataSentence(result) <=> ~SomeSignalFired(result)
    /\ SomeSignalFired(result)
        => startsWith(result.reasoning, Capitalize(result.tier) \o " candidate: ")

\* C13: the reasoning is 'Scored as <tier> based on available data' exactly
\* when no signal fired; when a signal fired it is '<Tier> candidate: '
\* followed by the highlight phrases
ReasoningTellsWhetherSignalsFired ==
    \A i \in 1..Len(results) : SentenceTellsFiring(results[i])

\* the bundle of the founder-only scenario
ScenarioFounder ==
    Lead("founder" :> [EmptyFounder EXCEPT
                          !.companiesFounded = <<[name |-> "Acme"], [name |-> "Globex"]>>,
                          !.exits = <<[company |-> "Acme"]>>])

\* the scenario scored under a document that leaves the founder rules to
\* their defaults
ScenarioFounderScoredAt(i) ==
    given = ScenarioFounder /\ calls[i] \in {DefaultConfig, BareConfig}

FounderPoints(result) ==
    /\ result.breakdown.ambition = Num(15)
    /\ result.breakdown.trackRecord = Num(5)

\* C15 as stated: in the founder-only scenario with two companies founded
\* and one exit, ambition is 15, trackRecord is 5, and the reasoning string
\* begins with 'Founded: <name1>, <name2>' and mentions the exit
FounderScenarioBeginsWithFounded ==
    \A i \in 1..Len(results) :
        ScenarioFounderScoredAt(i)
            => /\ FounderPoints(results[i])
               /\ startsWith(results[i].reasoning, "Founded: Acme, Globex")
               /\ includes(results[i].reasoning, "exit")

\* C15: in the founder-only scenario with two companies founded and one
\* exit, ambition is 15, trackRecord is 5, and the reasoning string is
\* '<Tier> candidate: ' followed by highlight phrases that begin with
\* 'Founded: <name1>, <name2>' and go on with '1 exit'
FounderScenarioHighlightsBeginWithFounded ==
    \A i \in 1..Len(results) :
        ScenarioFounderScoredAt(i)
            => /\ FounderPoints(results[i])
               /\ results[i].reasoning = Capitalize(results[i].tier)
                                             \o " candidate: Founded: Acme, Globex, 1 exit"

FounderScenarioScored ==
    /\ Len(results) >= 1
    /\ given = ScenarioFounder
    /\ calls[1] = DefaultConfig
    /\ results[1].signals = [companiesFounded |-> Num(15), exits |-> Num(5)]
    /\ results[1].reasoning = "Weak candidate: Founded: Acme, Globex, 1 exit"

\* C17: score has no effect on its input: after a score call the bundle
\* object is as it was given, the order of its LinkedIn experiences included
ScoreLeavesInputAsGiven == leadObj = given

----------------------------------------------------------------------------
(* Ramps: the raw GitHub counts of the scored bundle range over 0..MaxCount *)

\* a topLanguages list of n languages
Languages(n) == [i \in 1..n |-> "lang" \o NatToString(i)]

\* a GitHub profile whose raw counts are all n (its languages at most MaxLangs)
RampGithub(n) ==
    GithubProfile(n, Languages(IF n < MaxLangs THEN n ELSE MaxLangs), n, n, n)

RampLinkedin ==
    LinkedinProfile(<<>>, <<[school |-> "MIT", degree |-> "BS"]>>,
                    Certifications, Volunteering)

RampBundles ==
    {Lead(("github" :> RampGithub(n)) @@ l) :
        n \in 0..MaxCount, l \in Optional("linkedin", {RampLinkedin})}

RampConfigs == {DefaultConfig, TunedConfig, ZeroMinimumConfig}

InitRamp ==
    \E c \in RampConfigs, b \in RampBundles :
        /\ files = [p \in Paths |-> IF p = DefaultPath
                                    THEN [kind |-> "yaml", doc |-> c]
                                    ELSE [kind |-> "missing", doc |-> EmptyMap]]
        /\ scorer = [constructed |-> TRUE, config |-> c]
        /\ leadObj = b
        /\ given = b
        /\ results = <<>>
        /\ calls = <<>>
        /\ thrown = "none"
        /\ last = [op |-> "constructor", path |-> DefaultPath]
        /\ batch = NoBatch

NextRamp == ScoreCall

SpecRamp == InitRamp /\ [][NextRamp]_vars

----------------------------------------------------------------------------
(* Properties of the threshold ramps *)

RampKeys == {"githubProjects", "githubLanguages", "githubContributions",
             "githubOpenSource", "githubStars"}

\* the raw count a ramp signal is computed from
RampRaw(lead, key) ==
    CASE key = "githubProjects"      -> lead.qualification.github.publicRepos
      [] key = "githubLanguages"     -> Len(lead.qualification.github.topLanguages)
      [] key = "githubContributions" -> lead.qualification.github.contributions.lastYear
      [] key = "githubOpenSource"    -> lead.qualification.github.openSourceContributions
      [] key = "githubStars"         -> lead.qualification.github.totalStars

\* the minimum, the saturation threshold and the category cap in force for a ramp signal
RampRule(config, key) ==
    CASE key = "githubProjects" ->
            [min |-> Rule(config, "github_projects", "min_repos", Num(3)),
             max |-> Rule(config, "github_projects", "max_score_repos", Num(10)),
             cap |-> config.ambition.github_projects]
      [] key = "githubLanguages" ->
            [min |-> Rule(config, "github_languages", "min_languages", Num(2)),
             max |-> Rule(config, "github_languages", "max_score_languages", Num(5)),
             cap |-> config.intelligence.github_languages]
      [] key = "githubContributions" ->
            [min |-> Rule(config, "github_contributions", "min_contributions", Num(100)),
             max |-> Rule(config, "github_contributions", "max_score_contributions",
                          Num(1000)),
             cap |-> config.intelligence.github_contributions]
      [] key = "githubOpenSource" ->
            [min |-> Rule(config, "github_open_source", "min_contributions", Num(10)),
             max |-> Rule(config, "github_open_source", "max_score_contributions", Num(100)),
             cap |-> config.kindness.github_open_source]
      [] key = "githubStars" ->
            [min |-> Rule(config, "github_stars", "min_stars", Num(50)),
             max |-> Rule(config, "github_stars", "max_score_stars", Num(500)),
             cap |-> config.trackRecord.github_stars]

\* the points of a signal in a signal map: 0 when the key is absent
SignalValue(signals, key) == IF key \in DOMAIN signals THEN signals[key] ELSE Zero

\* the bundle with every raw GitHub count one higher
Grown(lead) ==
    [lead EXCEPT !.qualification.github = RampGithub(@.publicRepos + 1)]

\* C4: each of githubProjects, githubLanguages, githubContributions,
\* githubOpenSource and githubStars does not decrease when its raw count
\* grows, and is exactly its category cap when the raw count is at or above
\* the saturation threshold
RampsAreMonotoneAndSaturate ==
    \A i \in 1..Len(results) : \A key \in RampKeys :
        /\ Ge(Num(RampRaw(given, key)), RampRule(calls[i], key).max)
              => /\ key \in DOMAIN results[i].signals
                 /\ results[i].signals[key] = RampRule(calls[i], key).cap
        /\ Ge(SignalValue(score(Grown(given), calls[i]).value.signals, key),
              SignalValue(results[i].signals, key))

SaturatedReposScored ==
    /\ Len(results) >= 1
    /\ calls[1] = DefaultConfig
    /\ given.qualification.github.publicRepos = 100
    /\ results[1].signals.githubProjects = Num(10)
    /\ results[1].signals.githubStars = Num(2)

\* the signals of each breakdown category
CategoryKeys ==
    [ambition     |-> <<"githubProjects", "linkedinStartups", "linkedinLeadership",
                        "companiesFounded", "leadershipRoles", "thoughtLeadership">>,
     intelligence |-> <<"githubLanguages", "githubContributions", "linkedinEducation",
                        "linkedinCertifications", "topEducation",
                        "strategicAccomplishments">>,
     kindness     |-> <<"githubOpenSource", "linkedinVolunteering", "volunteerWork",
                        "mentorship", "communityBuilding">>,
     trackRecord  |-> <<"githubStars", "linkedinPromotions", "fundingRaised", "exits",
                        "pressMentions">>]

CategoryOf(key) == CHOOSE c \in DOMAIN CategoryKeys :
                       \E k \in 1..Len(CategoryKeys[c]) : CategoryKeys[c][k] = key

\* the points of the signals of a category that are in the signal map
CategoryPoints(signals, category) ==
    SumSeq([k \in 1..Len(CategoryKeys[category]) |->
               SignalValue(signals, CategoryKeys[category][k])])

\* C5: a ramp signal whose raw count is below its minimum has no key in the
\* returned signal map, and its category total is made of the other signals
\* of the category alone
BelowMinimumLeavesNoTrace ==
    \A i \in 1..Len(results) : \A key \in RampKeys :
        ~Ge(Num(RampRaw(given, key)), RampRule(calls[i], key).min)
            => /\ key \notin DOMAIN results[i].signals
               /\ results[i].breakdown[CategoryOf(key)]
                    = CategoryPoints(results[i].signals, CategoryOf(key))

BelowMinimumScored ==
    /\ Len(results) >= 1
    /\ calls[1] = TunedConfig
    /\ given.qualification.github.contributions.lastYear = 2
    /\ "githubContributions" \notin DOMAIN results[1].signals
    /\ "githubLanguages" \in DOMAIN results[1].signals
    /\ "linkedinEducation" \in DOMAIN results[1].signals

\* the sub-map, the keys and the hard-coded defaults of the thresholds of a ramp
RampTunables ==
    [githubProjects      |-> [section |-> "github_projects", min |-> "min_repos",
                              max |-> "max_score_repos", dmin |-> 3, dmax |-> 10],
     githubLanguages     |-> [section |-> "github_languages", min |-> "min_languages",
                              max |-> "max_score_languages", dmin |-> 2, dmax |-> 5],
     githubContributions |-> [section |-> "github_contributions", min |-> "min_contributions",
                              max |-> "max_score_contributions", dmin |-> 100, dmax |-> 1000],
     githubOpenSource    |-> [section |-> "github_open_source", min |-> "min_contributions",
                              max |-> "max_score_contributions", dmin |-> 10, dmax |-> 100],
     githubStars         |-> [section |-> "github_stars", min |-> "min_stars",
                              max |-> "max_score_stars", dmin |-> 50, dmax |-> 500]]

\* the value the document provides for a tunable, the default when the
\* document has no scoring_rules, no such sub-map or no such key
Documented(config, section, key, dflt) ==
    IF /\ "scoring_rules" \in DOMAIN config
       /\ section \in DOMAIN config.scoring_rules
       /\ key \in DOMAIN config.scoring_rules[section]
    THEN config.scoring_rules[section][key]
    ELSE Num(dflt)

DocumentedMin(config, t) == Documented(config, t.section, t.min, t.dmin)

DocumentedMax(config, t) == Documented(config, t.section, t.max, t.dmax)

\* the signal map has what the ramp gives for the thresholds min and max
RampScoredWith(signals, key, raw, min, max, cap) ==
    IF Ge(raw, min)
    THEN key \in DOMAIN signals /\ signals[key] = Mul(MathMin(Div(raw, max), Num(1)), cap)
    ELSE key \notin DOMAIN signals

\* C20: score uses, for every tunable of scoring_rules, the value the
\* document provides when it provides one and the hard-coded default when
\* the map, the sub-map or the key is missing, and never raises for a missing
\* or partial document: each GitHub ramp is the ramp of the documented
\* minimum and saturation threshold
TunablesResolveAsDocumented ==
    /\ thrown = "none"
    /\ \A i \in 1..Len(results) : \A key \in RampKeys :
           RampScoredWith(results[i].signals, key, Num(RampRaw(given, key)),
                          DocumentedMin(calls[i], RampTunables[key]),
                          DocumentedMax(calls[i], RampTunables[key]),
                          RampRule(calls[i], key).cap)

\* the bundle of the GitHub-only scenario
ScenarioGithub ==
    Lead("github" :> GithubProfile(12, <<"TS", "Go", "Rust">>, 600, 1200, 150))

ScenarioGithubScoredAt(i) == given = ScenarioGithub /\ calls[i] = DefaultConfig

\* the breakdown that is the sum, per category, of the given ramp signals
RampBreakdown(signals) ==
    [c \in DOMAIN CategoryKeys |-> CategoryPoints(signals, c)]

AllRampsAtCap(result) ==
    /\ \A key \in RampKeys :
           SignalValue(result.signals, key) = RampRule(DefaultConfig, key).cap
    /\ result.breakdown = RampBreakdown([key \in RampKeys |->
                                            RampRule(DefaultConfig, key).cap])

\* C14 as stated: in the GitHub-only scenario under the default configuration
\* every GitHub ramp signal is at its category cap and the breakdown is the
\* sum of those caps per category
GithubScenarioSaturatesEveryRamp ==
    \A i \in 1..Len(results) : ScenarioGithubScoredAt(i) => AllRampsAtCap(results[i])

\* the signals of the scenario: three languages are three fifths of the way
\* to the default saturation threshold of five
ScenarioSignals ==
    [key \in RampKeys |->
        IF key = "githubLanguages"
        THEN Mul(Q(3, 5), RampRule(DefaultConfig, key).cap)
        ELSE RampRule(DefaultConfig, key).cap]

ScenarioResult(result) ==
    /\ result.signals = ScenarioSignals
    /\ result.breakdown = RampBreakdown(ScenarioSignals)
    /\ result.total = RoundTotal(TotalScore(RampBreakdown(ScenarioSignals)))
    /\ result.tier = Tier(TotalScore(RampBreakdown(ScenarioSignals)), DefaultConfig)

\* C14: in the GitHub-only scenario under the default configuration
\* githubProjects, githubContributions, githubOpenSource and githubStars are
\* at their category caps, githubLanguages is three fifths of its cap, the
\* breakdown is the sum of these five values per category, and the tier is
\* the one of that sum
GithubScenarioSaturatesAllButLanguages ==
    \A i \in 1..Len(results) : ScenarioGithubScoredAt(i) => ScenarioResult(results[i])

GithubScenarioScored ==
    /\ Len(results) >= 1
    /\ ScenarioGithubScoredAt(1)
    /\ results[1].signals.githubLanguages = Num(3)
    /\ results[1].breakdown.intelligence = Num(13)
    /\ results[1].total = Num(43)

----------------------------------------------------------------------------
(* Properties of the returned tier, breakdown and signals *)

\* C21: the returned tier is the one the cutoffs give for the returned
\* total, the total rounded to one decimal place
TierAgreesWithReturnedTotal ==
    \A i \in 1..Len(results) : results[i].tier = Tier(results[i].total, calls[i])

Categories == DOMAIN CategoryKeys

\* the bundle with its founder profile alone
OnlyFounder(lead) == Lead("founder" :> lead.qualification.founder)

\* each category is the sum of the values the signal map holds for its signals
BreakdownSumsSignals(result) ==
    \A c \in Categories : result.breakdown[c] = CategoryPoints(result.signals, c)

\* each category is what the bundle without founder profile scores plus
\* what the founder profile scores
FounderAddsOnTop(result, lead, config) ==
    Has(lead, "founder")
        => \A c \in Categories :
               result.breakdown[c]
                   = Add(score(Without(lead, "founder"), config).value.breakdown[c],
                         score(OnlyFounder(lead), config).value.breakdown[c])

\* C22: each returned breakdown category is the sum of the signal-map
\* values of its signals, of both passes; with a founder profile the founder
\* points come on top of the points of the first pass
BreakdownIsSumOfSignals ==
    \A i \in 1..Len(results) :
        /\ BreakdownSumsSignals(results[i])
        /\ FounderAddsOnTop(results[i], given, calls[i])

BothPassesScoredAmbition ==
    /\ Len(results) >= 1
    /\ Has(given, "founder") /\ Has(given, "github")
    /\ Truthy(results[1].signals, "githubProjects")
    /\ Truthy(results[1].signals, "companiesFounded")
    /\ Truthy(results[1].signals, "githubStars")
    /\ Truthy(results[1].signals, "exits")

\* the index of the first entry, in list order, of a top school; 0 if none
FirstTopSchool(education, topSchools) ==
    IF \A k \in 1..Len(education) : ~isTopSchool(education[k], topSchools)
    THEN 0
    ELSE CHOOSE k \in 1..Len(education) :
             /\ isTopSchool(education[k], topSchools)
             /\ \A j \in 1..(k - 1) : ~isTopSchool(education[j], topSchools)

\* the base score for entry k, with the bonus iff its degree is an advanced one
EducationOfEntry(education, k, config) ==
    IF k = 0 THEN Zero
    ELSE IF hasAdvancedDegree(education[k])
         THEN Mul(config.intelligence.linkedin_education,
                  Add(Num(1), Rule(config, "linkedin_education", "advanced_degree_bonus",
                                   Q(3, 10))))
         ELSE config.intelligence.linkedin_education

OnlyDirectorOfSales(lead) ==
    /\ Has(lead, "founder")
    /\ Len(lead.qualification.founder.leadershipRoles) = 1
    /\ lead.qualification.founder.leadershipRoles[1].title = "Director of Sales"

\* C24: a leadership role adds 5 x ceoMultiplier when its title contains
\* 'ceo', 'cto' or 'chief' and 3 x vpMultiplier when it contains 'vp' or
\* 'director', summed and capped at the ceiling: a plain 'Director of Sales'
\* role adds 3 x vpMultiplier (4.5 under the defaults)
DirectorAddsVpPoints ==
    \A i \in 1..Len(results) :
        OnlyDirectorOfSales(given)
            => results[i].signals.leadershipRoles
                 = MathMin(Mul(Num(3), Rule(calls[i], "leadership_roles",
                                            "vp_director_multiplier", Q(3, 2))),
                           Cap(calls[i].ambition, "leadership_roles", Num(10)))

----------------------------------------------------------------------------
(* Properties of the promotion count *)

Unparsable(exp) == getTime(exp.startDate).nan

\* a before b when ordered by start date descending, an unparsable start
\* date counting as the oldest possible
OldestLast(a, b) ==
    \/ Unparsable(b)
    \/ ~Unparsable(a) /\ getTime(a.startDate).ms >= getTime(b.startDate).ms

\* the orderings of the experiences by start date descending
Orderings(experiences) ==
    {o \in {[k \in 1..Len(experiences) |-> experiences[p[k]]] :
                p \in Permutations(1..Len(experiences))} :
        \A k \in 1..(Len(o) - 1) : OldestLast(o[k], o[k + 1])}

\* C27: the promotion count is the number of adjacent pairs of the same
\* company after ordering the experiences by start date descending, an
\* experience with an unparsable start date ordered as the oldest (last),
\* whatever the input order; no error is raised
PromotionsCountedOldestLast ==
    /\ thrown = "none"
    /\ \A i \in 1..Len(results) :
           Has(given, "linkedin")
               => \E o \in Orderings(given.qualification.linkedin.experiences) :
                      SignalValue(results[i].signals, "linkedinPromotions")
                          = PromotionSignal(promotionCount(o), calls[i]).score

----------------------------------------------------------------------------
(* Properties of the reasoning *)

FounderOrder ==
    <<"companiesFounded", "leadershipRoles", "thoughtLeadership", "topEducation",
      "fundingRaised", "exits", "pressMentions", "volunteerWork", "mentorship",
      "githubProjects", "githubStars", "githubOpenSource">>

NoFounderOrder ==
    <<"githubProjects", "linkedinStartups", "linkedinLeadership", "githubLanguages",
      "githubContributions", "linkedinEducation", "githubOpenSource",
      "linkedinVolunteering", "githubStars">>

Counted(n, noun) == NatToString(n) \o " " \o noun \o Plural(n)

FirstTwo(s) == SubSeq(s, 1, IF Len(s) < 2 THEN Len(s) ELSE 2)

RoundName(funding) ==
    IF "round" \in DOMAIN funding /\ funding.round # "" THEN funding.round ELSE "funding"

DegreeSuffix(edu) ==
    IF "degree" \in DOMAIN edu /\ edu.degree # "" THEN " - " \o edu.degree ELSE ""

\* the highlight phrase of a signal of the founder pass
FounderPhrase(f, key) ==
    CASE key = "companiesFounded" ->
             "Founded: " \o join([k \in 1..Len(f.companiesFounded) |->
                                     f.companiesFounded[k].name], ", ")
      [] key = "leadershipRoles" ->
             join([k \in 1..Len(FirstTwo(f.leadershipRoles)) |->
                      f.leadershipRoles[k].title \o " at " \o f.leadershipRoles[k].company],
                  ", ")
      [] key = "thoughtLeadership" -> "Thought leader (speaking/writing)"
      [] key = "topEducation" -> f.topEducation[1].school \o DegreeSuffix(f.topEducation[1])
      [] key = "fundingRaised" ->
             "Raised: " \o join([k \in 1..Len(f.fundingRaised) |->
                                    RoundName(f.fundingRaised[k])], ", ")
      [] key = "exits" -> Counted(Len(f.exits), "exit")
      [] key = "pressMentions" -> Counted(Len(f.pressMentions), "press mention")
      [] key = "volunteerWork" -> "Volunteer: " \o f.volunteerWork[1].organization
      [] key = "mentorship" -> "Active mentor"

\* the highlight phrase of a signal of the first pass
FirstPassPhrase(q, key) ==
    CASE key = "githubProjects" -> NatToString(q.github.publicRepos) \o " GitHub projects"
      [] key = "githubStars" -> NatToString(q.github.totalStars) \o " GitHub stars"
      [] key = "githubOpenSource" ->
             NatToString(q.github.openSourceContributions) \o " open source contributions"
      [] key = "linkedinStartups" -> "Startup founder/early employee"
      [] key = "linkedinLeadership" -> "Leadership experience"
      [] key = "githubLanguages" ->
             NatToString(Len(q.github.topLanguages)) \o " programming languages"
      [] key = "githubContributions" ->
             NatToString(q.github.contributions.lastYear) \o " contributions last year"
      [] key = "linkedinEducation" ->
             "Education: " \o (IF Len(q.linkedin.education) > 0
                               THEN q.linkedin.education[1].school ELSE "undefined")
      [] key = "linkedinVolunteering" -> "Volunteer experience"

FounderKeys == {FounderOrder[k] : k \in 1..9}

Phrase(lead, key) ==
    IF key \in FounderKeys
    THEN FounderPhrase(lead.qualification.founder, key)
    ELSE FirstPassPhrase(lead.qualification, key)

\* the signals of an ordering that fired, in that order
FiredOf(result, order) == SelectSeq(order, LAMBDA key : Truthy(result.signals, key))

Highlights(lead, fired) == join([k \in 1..Len(fired) |-> Phrase(lead, fired[k])], ", ")

\* the reasoning names the signals of fired, in that order, and nothing else
ReasoningNames(result, lead, fired) ==
    result.reasoning = IF Len(fired) = 0
                       THEN NoDataSentence(result)
                       ELSE Capitalize(result.tier) \o " candidate: "
                                \o Highlights(lead, fired)

\* C25: with a founder profile the reasoning names, each only if its signal
\* fired, in this order: companies founded, leadership roles (the first
\* two), thought leadership, top education, funding rounds, exits, press
\* mentions, volunteer organisation, mentorship; then GitHub repositories,
\* stars and open-source contributions
FounderHighlightsInOrder ==
    \A i \in 1..Len(results) :
        Has(given, "founder")
            => ReasoningNames(results[i], given, FiredOf(results[i], FounderOrder))

AllTwelveHighlights ==
    /\ Len(results) >= 1
    /\ Has(given, "founder") /\ Has(given, "github")
    /\ Len(FiredOf(results[1], FounderOrder)) = 12

\* C26: without a founder profile the reasoning names, each iff its signal
\* fired, in this order: GitHub projects, startup flag, leadership flag,
\* language count, contributions last year, education school, open-source
\* count, volunteering flag, star count
NoFounderHighlightsInOrder ==
    \A i \in 1..Len(results) :
        ~Has(given, "founder")
            => ReasoningNames(results[i], given, FiredOf(results[i], NoFounderOrder))

----------------------------------------------------------------------------
(* What score does not read *)

\* other weights sections for the same document
OtherWeights ==
    {[ambition |-> Num(25), intelligence |-> Num(25), kindness |-> Num(25),
      trackRecord |-> Num(25)],
     [ambition |-> Num(70), intelligence |-> Num(10), kindness |-> Num(10),
      trackRecord |-> Num(10)]}

\* the bundle with no hunter sub-profile, and with other ones
OtherHunters(lead) ==
    {Without(lead, "hunter"),
     Lead(("hunter" :> [email |-> "lead@example.com", verified |-> FALSE, confidence |-> 12])
              @@ lead.qualification),
     Lead(("hunter" :> [email |-> "other@example.com", verified |-> TRUE, confidence |-> 100,
                        linkedinUrl |-> "https://linkedin.com/in/lead"])
              @@ lead.qualification)}

----------------------------------------------------------------------------
(* Lifecycle: construction, reloads, file edits and score calls interleave *)

LifecycleLeads ==
    {Lead(("github" :> GithubProfile(12, <<"TS", "Go", "Rust">>, 600, 1200, 150))
          @@ ("linkedin" :> LinkedinProfile(<<>>, <<[school |-> "MIT", degree |-> "BS"]>>,
                                            Certifications, Volunteering))),
     Lead("linkedin" :>
            LinkedinProfile(<<[title |-> "Software Engineer", company |-> "Acme",
                               startDate |-> "2019-06"],
                              [title |-> "Founder & CEO", company |-> "Acme",
                               startDate |-> "2021-03"]>>,
                            <<>>, <<>>, <<>>))}

InitLifecycle ==
    \E b \in LifecycleLeads :
        /\ files = [p \in Paths |-> IF p = DefaultPath
                                    THEN [kind |-> "yaml", doc |-> DefaultConfig]
                                    ELSE [kind |-> "missing", doc |-> EmptyMap]]
        /\ scorer = NoScorer
        /\ leadObj = b
        /\ given = b
        /\ results = <<>>
        /\ calls = <<>>
        /\ thrown = "none"
        /\ last = [op |-> "none", path |-> DefaultPath]
        /\ batch = NoBatch

NextLifecycle ==
    \/ \E configPath \in PathArgs : Constructor(configPath)
    \/ \E configPath \in PathArgs : ReloadConfig(configPath)
    \/ \E path \in Paths, content \in FileContents : EditFile(path, content)
    \/ ScoreCall

SpecLifecycle == InitLifecycle /\ [][NextLifecycle]_vars

----------------------------------------------------------------------------
(* Properties of the lifecycle *)

\* two configurations that differ at most in tiers.exceptional
SameButExceptional(c1, c2) == [c1 EXCEPT !.tiers.exceptional = c2.tiers.exceptional] = c2

\* results returned under configurations that differ at most in
\* tiers.exceptional differ at most in their tier, and in the reasoning
\* only when the tier differs
DifferOnlyInTier ==
    \A i, j \in 1..Len(results) :
        SameButExceptional(calls[i], calls[j]) =>
            /\ results[i].total = results[j].total
            /\ results[i].breakdown = results[j].breakdown
            /\ results[i].signals = results[j].signals
            /\ results[i].tier = results[j].tier => results[i].reasoning = results[j].reasoning

\* C8: a reloadConfig leaves every ScoreResult returned before it as it was
\* (as every later step does), and a reload that changes tiers.exceptional
\* changes nothing but the tier of the results of later score calls
ReloadAffectsOnlyLaterTiers ==
    [][/\ last'.op = "reloadConfig" => results' = results
       /\ Len(results') >= Len(results)
       /\ \A i \in 1..Len(results) : results'[i] = results[i]
       /\ DifferOnlyInTier']_vars

TierChangedByReload ==
    /\ Len(results) = 2
    /\ calls[1] = DefaultConfig
    /\ calls[2] = RetieredConfig
    /\ results[1].tier = "strong"
    /\ results[2].tier = "exceptional"
    /\ results[1].total = results[2].total

LoadErrors == {"ENOENT", "YAMLException"}

\* C9: a constructor or reloadConfig whose document cannot be read or parsed
\* throws the error to its caller, and leaves the scorer as it was: after a
\* failed reloadConfig the configuration held before is the one getConfig
\* returns and score uses
FailedLoadThrowsAndKeepsConfig ==
    [][(last'.op \in {"constructor", "reloadConfig"} /\ files[last'.path].kind # "yaml")
          => /\ thrown' \in LoadErrors
             /\ getConfig' = getConfig
             /\ scorer' = scorer]_vars

FailedReloadKeptConfig ==
    /\ last.op = "reloadConfig"
    /\ thrown = "YAMLException"
    /\ scorer.constructed
    /\ getConfig = RetieredConfig
    /\ Len(results) >= 1

\* every configuration file holds the document d
EveryFileHolds(d) == \A p \in Paths : files[p] = [kind |-> "yaml", doc |-> d]

\* C16: after the configuration file was edited, the next score call is made
\* with the edited document, without a reloadConfig and without a new
\* scorer: a score call that has just returned used the document that the
\* configuration files (whichever the scorer reads) hold
EditedFileIsScoredWith ==
    \A d \in LifecycleDocs :
        (last.op = "score" /\ Len(calls) >= 1 /\ EveryFileHolds(d))
            => calls[Len(calls)] = d

----------------------------------------------------------------------------
(* Batches: a qualifyLeads call, with reloadConfig calls between its steps *)

MaxLeads == 3

\* maxConcurrent as the caller gives it: omitted (0 here), 1 or 2
MaxConcurrentOptions == {0, 1, 2}

BatchDocs == {DefaultConfig, TunedConfig}

InitBatch ==
    \E gemini \in BOOLEAN :
        /\ files = [p \in Paths |-> [kind |-> "yaml",
                                     doc |-> IF p = DefaultPath THEN DefaultConfig
                                             ELSE TunedConfig]]
        /\ scorer = [constructed |-> TRUE, config |-> DefaultConfig]
        /\ leadObj = Lead(EmptyMap)
        /\ given = Lead(EmptyMap)
        /\ results = <<>>
        /\ calls = <<>>
        /\ thrown = "none"
        /\ last = [op |-> "constructor", path |-> DefaultPath]
        /\ batch = [NoBatch EXCEPT !.gemini = gemini]

NextBatch ==
    \/ \E n \in 0..MaxLeads, option \in MaxConcurrentOptions : QualifyLeads(n, option)
    \/ \E p \in 1..MaxLeads : GithubDone(p)
    \/ \E p \in 1..MaxLeads, found \in BOOLEAN : HunterDone(p, found)
    \/ \E p \in 1..MaxLeads : CrawlDone(p)
    \/ \E p \in 1..MaxLeads, hasData \in BOOLEAN : SearchDone(p, hasData)
    \/ \E p \in 1..MaxLeads, extracted \in BOOLEAN : ExtractDone(p, extracted)
    \/ \E p \in 1..MaxLeads : CloseDone(p)
    \/ \E p \in 1..MaxLeads : ScoreReturn(p)
    \/ BatchDone
    \/ DelayDone
    \/ \E configPath \in PathArgs : BatchReload(configPath)

SpecBatch == InitBatch /\ [][NextBatch]_vars

----------------------------------------------------------------------------
(* Properties of the batches *)

Finished == {p \in 1..Len(batch.pipes) : batch.pipes[p].pc = "done"}

\* the LeadScore of the pipeline is the one score gives under one document
FromOneSnapshot(pipe) == \E c \in BatchDocs : pipe.score = score(pipe.lead, c).value

\* C18: however reloadConfig calls interleave with the steps of concurrent
\* pipelines, each score call computes its whole result (signals, breakdown,
\* total, tier, reasoning) from one configuration, the old or the new one
ScoreUsesOneSnapshot == \A p \in Finished : FromOneSnapshot(batch.pipes[p])

ScoredUnder(p, c) ==
    /\ p \in Finished
    /\ batch.pipes[p].score = score(batch.pipes[p].lead, c).value
    /\ batch.pipes[p].score # score(batch.pipes[p].lead, DefaultConfig).value
           \/ batch.pipes[p].score # score(batch.pipes[p].lead, TunedConfig).value

ReloadBetweenScoresOfOneBatch ==
    /\ batch.maxConcurrent = 3
    /\ ScoredUnder(1, DefaultConfig)
    /\ ScoredUnder(3, TunedConfig)

InFlight == {p \in 1..Len(batch.pipes) : batch.pipes[p].pc \notin {"idle", "done"}}

ScoredOnceAfterItsData(pipe) ==
    /\ pipe.scoreCalls <= 1
    /\ pipe.pc = "done" => pipe.scoreCalls = 1
    /\ pipe.scoreCalls = 1 => pipe.pc \in {"tier", "done"}

\* C19: in a qualifyLeads call at most maxConcurrent pipelines (3 when the
\* option is omitted) are in flight at any moment, and score is invoked
\* exactly once per lead, when no data-source call of the lead is pending
BatchesAreBoundedAndScoreOnce ==
    /\ Cardinality(InFlight) <= batch.maxConcurrent
    /\ batch.maxConcurrent <= 3
    /\ \A p \in 1..Len(batch.pipes) : ScoredOnceAfterItsData(batch.pipes[p])
    /\ batch.phase = "done"
          => /\ Finished = 1..Len(batch.pipes)
             /\ Len(batch.results) = Len(batch.pipes)

TwoBatchesFinished ==
    /\ batch.phase = "done"
    /\ batch.maxConcurrent = 2
    /\ Len(batch.pipes) = 3
    /\ \A p \in 1..3 : batch.pipes[p].scoreCalls = 1
    /\ batch.pipes[1].lead.qualification = ("github" :> BatchGithub) @@ ("hunter" :> BatchHunter)
                                           @@ ("founder" :> BatchFounder)
    /\ batch.progress = <<1, 2, 3>>

----------------------------------------------------------------------------
(* Crawls: the pipelines of a qualifyLeads call with the steps of crawlProfile *)
(* on the one LinkedInCrawler of the orchestrator                              *)

InitCrawl ==
    /\ files = [p \in Paths |-> [kind |-> "yaml", doc |-> DefaultConfig]]
    /\ scorer = [constructed |-> TRUE, config |-> DefaultConfig]
    /\ leadObj = Lead(EmptyMap)
    /\ given = Lead(EmptyMap)
    /\ results = <<>>
    /\ calls = <<>>
    /\ thrown = "none"
    /\ last = [op |-> "constructor", path |-> DefaultPath]
    /\ batch = [NoBatch EXCEPT !.gemini = TRUE]

NextCrawl ==
    \/ \E n \in 0..MaxLeads, option \in MaxConcurrentOptions : QualifyLeads(n, option)
    \/ \E p \in 1..MaxLeads : GithubDone(p)
    \/ \E p \in 1..MaxLeads, found \in BOOLEAN : HunterDone(p, found)
    \/ \E p \in 1..MaxLeads : LaunchDone(p)
    \/ \E p \in 1..MaxLeads : ContextDone(p)
    \/ \E p \in 1..MaxLeads : PageDone(p)
    \/ \E p \in 1..MaxLeads : CrawlReturn(p)
    \/ \E p \in 1..MaxLeads, hasData \in BOOLEAN : SearchDone(p, hasData)
    \/ \E p \in 1..MaxLeads, extracted \in BOOLEAN : ExtractDone(p, extracted)
    \/ \E p \in 1..MaxLeads : CloseDone(p)
    \/ \E p \in 1..MaxLeads : ScoreReturn(p)
    \/ BatchDone
    \/ DelayDone

SpecCrawl == InitCrawl /\ [][NextCrawl]_vars

----------------------------------------------------------------------------
(* Properties of the crawls *)

\* the pipelines whose crawl works on the context or the page of its browser
Crawling == {p \in 1..Len(batch.pipes) : batch.pipes[p].pc \in {"context", "page"}}

\* C28: no pipeline closes a browser that a pipeline in flight is still
\* using, and when the batch is over every browser that was launched is
\* closed
NoBrowserIsClosedInUseOrLeftOpen ==
    /\ \A p \in Crawling : batch.browsers[p] = "open"
    /\ batch.phase = "done" => \A p \in 1..Len(batch.pipes) : batch.browsers[p] # "open"

----------------------------------------------------------------------------
(* Search batches: a qualifyLeads call of the search flow *)

InitSearch ==
    \E gemini \in BOOLEAN :
        /\ files = [p \in Paths |-> [kind |-> "yaml", doc |-> DefaultConfig]]
        /\ scorer = NoScorer
        /\ leadObj = Lead(EmptyMap)
        /\ given = Lead(EmptyMap)
        /\ results = <<>>
        /\ calls = <<>>
        /\ thrown = "none"
        /\ last = [op |-> "constructor", path |-> DefaultPath]
        /\ batch = [NoBatch EXCEPT !.gemini = gemini]

NextSearch ==
    \/ \E n \in 0..MaxLeads, option \in MaxConcurrentOptions : SearchQualifyLeads(n, option)
    \/ \E p \in 1..MaxLeads, isValid \in BOOLEAN : NameDone(p, isValid)
    \/ \E p \in 1..MaxLeads, totalResults \in 0..1 : SearchesDone(p, totalResults)
    \/ \E p \in 1..MaxLeads, analysed \in BOOLEAN : AnalysisDone(p, analysed)
    \/ SearchBatchRejected
    \/ SearchBatchDone

SpecSearch == InitSearch /\ [][NextSearch]_vars

----------------------------------------------------------------------------
(* Properties of the returned batch *)

\* the result at position k is the one of the k-th lead
ResultIsOfLead(result, k) ==
    result.success => result.lead.email = SearchLead(k).email

\* C29: the batch operation returns one result per lead, in input order, and
\* reports progress with current = 1..N in that order; a failure inside the
\* pipeline of one lead gives a result for that lead and keeps no result of
\* another lead from being returned
EveryLeadGetsItsResult ==
    /\ batch.phase # "rejected"
    /\ batch.phase = "done"
          => /\ Len(batch.results) = Len(batch.pipes)
             /\ \A k \in 1..Len(batch.results) : ResultIsOfLead(batch.results[k], k)
             /\ batch.progress = [k \in 1..Len(batch.pipes) |-> k]

====
